---- MODULE Spec2Model ----
(***************************************************************************)
(* SkillForage-X: the cache layer (userDashboardCache.js) over a Redis     *)
(* store, and the resume queue processor with its upload and retrieval     *)
(* endpoints (server.js).                                                  *)
(*                                                                         *)
(* Redis strings are modelled as tagged tuples: JSON.stringify(v) is       *)
(* <<"json", v>>, a raw string s is <<"raw", s>>, and a missing key reads  *)
(* as Nil.  Keys are the tuples of the parts a template literal joins with *)
(* ":".  Time is in seconds.                                               *)
(***************************************************************************)
EXTENDS Integers, Sequences, FiniteSets, TLC

VARIABLES
    redis,      \* the Redis store: key -> [val, exp]; exp = NoExpiry or the second it expires
    now,        \* the clock, in seconds
    ticks,      \* how many times the clock has advanced
    ncalls,     \* how many cache-layer calls have been started
    calls,      \* per caller, the cache-layer call in flight (op = "idle" when none)
    last,       \* the cache-layer call that completed last, with what it read and returned
    jobs,       \* the resume queue: the sequence of the jobs added, by number
    waitq,      \* the numbers of the waiting jobs, in the order workers take them
    files,      \* the numbers of the jobs whose uploaded file is on disk
    db,         \* the document store: the jobs with a saved analysis, with an updated user
    fetched,    \* what the last GET /api/resume-analysis/:jobId answered
    faults      \* how many more calls of the processor to Redis or MongoDB can fail

cacheVars == <<redis, now, ticks, ncalls, calls, last>>
jobVars == <<jobs, waitq, files, db, fetched, faults>>
vars == <<redis, now, ticks, ncalls, calls, last, jobs, waitq, files, db, fetched, faults>>

---------------------------------------------------------------------------
(* Program constants: userDashboardCache.js lines 4-7 *)
DASHBOARD_CACHE_EXPIRATION == 3600
SKILLS_CACHE_EXPIRATION == 86400
ARTICLES_CACHE_EXPIRATION == 21600
RECOMMENDATIONS_CACHE_EXPIRATION == 1800

(* Bounds of the model *)
MaxTicks == 2
MaxCalls == 3
MaxJobs == 2
MaxFaults == 4
QueueFaults == 1

Users == {"u1"}
Callers == {"c1", "c2"}
Namespaces == {"dashboard", "skills", "articles", "recommendations"}
Payloads == {"p1", "p2"}
SkillNames == {"JavaScript", "React"}
Deltas == {10, 70}
\* the clock advances by the shortest or the longest TTL: two short steps pass the
\* dashboard's, one long step passes every one
TickSteps == {RECOMMENDATIONS_CACHE_EXPIRATION, SKILLS_CACHE_EXPIRATION}

---------------------------------------------------------------------------
(* The Redis store *)
Nil == <<>>
NoExpiry == -1

JSONstringify(v) == <<"json", v>>
JSONparse(s) ==
    IF Len(s) = 2 /\ s[1] = "json"
    THEN [ok |-> TRUE, value |-> s[2]]
    ELSE [ok |-> FALSE, value |-> "SyntaxError"]

Key2(ns, userId) == <<ns, userId>>
ActivityKey(userId) == <<"user", userId, "last_activity">>

\* GET: the string at key, or Nil
redisGet(store, key) == IF key \in DOMAIN store THEN store[key].val ELSE Nil

\* SET key val EX ttl, issued at second t
redisSetEx(store, key, val, ttl, t) ==
    [k \in DOMAIN store \cup {key} |->
        IF k = key THEN [val |-> val, exp |-> t + ttl] ELSE store[k]]

\* SET key val (no expiry)
redisSet(store, key, val) ==
    [k \in DOMAIN store \cup {key} |->
        IF k = key THEN [val |-> val, exp |-> NoExpiry] ELSE store[k]]

\* DEL key
redisDel(store, key) == [k \in DOMAIN store \ {key} |-> store[k]]

\* what Redis keeps of the store at second t: keys past their expiry are gone
Expire(store, t) ==
    [k \in {x \in DOMAIN store : store[x].exp = NoExpiry \/ store[x].exp > t} |-> store[k]]

---------------------------------------------------------------------------
(* Return values of the cache layer *)
RetNull == [kind |-> "null"]
RetValue(v) == [kind |-> "value", value |-> v]
RetThrow(e) == [kind |-> "throw", error |-> e]

\* getDashboard / getSkillProgress / getArticles / getRecommendations:
\* the parsed entry, null when the key is missing, a throw when it does not parse
getCached(store, ns, userId) ==
    LET cachedData == redisGet(store, Key2(ns, userId)) IN
    IF cachedData # Nil
    THEN LET p == JSONparse(cachedData) IN
         IF p.ok THEN RetValue(p.value) ELSE RetThrow(p.value)
    ELSE RetNull

\* one expiry, the dashboard's, for every namespace
TTLOfDashboard(ns) == DASHBOARD_CACHE_EXPIRATION

TTLOf(ns) ==
    CASE ns = "dashboard" -> DASHBOARD_CACHE_EXPIRATION
      [] ns = "skills" -> SKILLS_CACHE_EXPIRATION
      [] ns = "articles" -> ARTICLES_CACHE_EXPIRATION
      [] ns = "recommendations" -> RECOMMENDATIONS_CACHE_EXPIRATION

\* a setter that forgets the expiry: SET key value, without 'EX', ttl
setCachedNoExpiry(store, ns, userId, value, t) ==
    redisSet(store, Key2(ns, userId), JSONstringify(value))

\* the SET of setDashboard, setSkillProgress, setArticles, setRecommendations:
\* redisSet(`${ns}:${userId}`, JSON.stringify(value), 'EX', the namespace's expiry)
setCached(store, ns, userId, value, t) ==
    redisSetEx(store, Key2(ns, userId), JSONstringify(value), TTLOf(ns), t)

---------------------------------------------------------------------------
(* Skill records *)
CategoryOf(name) == IF name = "JavaScript" THEN "programming" ELSE "frontend"

SkillRec(name, level, progress, t) ==
    [name |-> name, level |-> level,
     targetLevel |-> IF level < 80 THEN level + 20 ELSE 100,
     category |-> CategoryOf(name), lastPracticed |-> t, progress |-> progress]

\* the records a caller passes: a skill practised a day before the start, the same
\* skill assessed anew an hour before the start, and another skill
SkillRecs ==
    {SkillRec("JavaScript", 50, 40, -86400), SkillRec("JavaScript", 70, 0, -3600),
     SkillRec("React", 50, 0, -3600)}

\* the skill lists a caller passes: at most one record per name
SkillLists ==
    {<<>>} \cup {<<r>> : r \in SkillRecs}
           \cup {<<r1, r2>> : r1 \in {r \in SkillRecs : r.name = "JavaScript"},
                              r2 \in {r \in SkillRecs : r.name # "JavaScript"}}

Min(a, b) == IF a < b THEN a ELSE b

\* Array.prototype.find: the first element with the name, or Nil
FindByName(list, name) ==
    LET idx == {i \in 1..Len(list) : list[i].name = name} IN
    IF idx = {} THEN Nil ELSE list[CHOOSE i \in idx : \A j \in idx : i <= j]

\* a merge whose spread is in the wrong order: the new record's own progress and
\* lastPracticed win
MergeSkillsNewWins(skills, existingSkills) == skills

\* setSkillProgress lines 101-111: { ...newSkill, progress, lastPracticed of the existing one }
MergeSkills(skills, existingSkills) ==
    [i \in 1..Len(skills) |->
        LET newSkill == skills[i]
            existingSkill == FindByName(existingSkills, newSkill.name) IN
        IF existingSkill # Nil
        THEN [newSkill EXCEPT !.progress = existingSkill.progress,
                              !.lastPracticed = existingSkill.lastPracticed]
        ELSE newSkill]

\* updateSkillProgress lines 130-140
BumpSkills(skills, skillName, progressDelta, t) ==
    [i \in 1..Len(skills) |->
        LET skill == skills[i] IN
        IF skill.name = skillName
        THEN [skill EXCEPT !.progress = Min(skill.progress + progressDelta, 100),
                           !.lastPracticed = t]
        ELSE skill]

---------------------------------------------------------------------------
(* Calls *)
Idle == [op |-> "idle"]
NoLast == [op |-> "none"]
AllIdle == \A c \in Callers : calls[c] = Idle

\* a call starts / a call in flight goes on: neither touches the queue
Begin == ncalls < MaxCalls /\ ncalls' = ncalls + 1 /\ UNCHANGED jobVars
Continue == ncalls' = ncalls /\ UNCHANGED jobVars

Done(op, ns, userId, arg, res, pre, at) ==
    [op |-> op, ns |-> ns, user |-> userId, arg |-> arg, res |-> res,
     pre |-> pre, at |-> at]

\* getDashboard, getSkillProgress, getArticles, getRecommendations
Get(c, ns, userId) ==
    /\ calls[c] = Idle
    /\ Begin
    /\ last' = Done("get", ns, userId, Nil, getCached(redis, ns, userId), Nil, now)
    /\ UNCHANGED <<redis, now, ticks, calls>>

\* setArticles, setRecommendations: one SET with the namespace's expiry
SetSimple(c, ns, userId, v) ==
    /\ calls[c] = Idle
    /\ Begin
    /\ ns \in {"articles", "recommendations"}
    /\ \E ok \in BOOLEAN :
        IF ok
        THEN /\ redis' = setCached(redis, ns, userId, v, now)
             /\ last' = Done("set", ns, userId, v, RetValue(TRUE),
                             getCached(redis, ns, userId), now)
        ELSE /\ redis' = redis
             /\ last' = Done("set", ns, userId, v, RetThrow("redis"),
                             getCached(redis, ns, userId), now)
    /\ UNCHANGED <<now, ticks, calls>>

\* setDashboard, first SET (lines 49-54): the dashboard entry
SetDashboard(c, userId, dashboardData) ==
    /\ calls[c] = Idle
    /\ Begin
    /\ \E ok \in BOOLEAN :
        IF ok
        THEN /\ redis' = setCached(redis, "dashboard", userId, dashboardData, now)
             /\ calls' = [calls EXCEPT ![c] =
                    [op |-> "setDashboard", pc |-> "activity", user |-> userId,
                     arg |-> dashboardData, at |-> now,
                     pre |-> getCached(redis, "dashboard", userId)]]
             /\ last' = NoLast
        ELSE /\ redis' = redis
             /\ calls' = calls
             /\ last' = Done("set", "dashboard", userId, dashboardData,
                             RetThrow("redis"), getCached(redis, "dashboard", userId), now)
    /\ UNCHANGED <<now, ticks>>

\* setDashboard, second SET (lines 57-62): the user's last activity, for twice as long
SetDashboardActivity(c) ==
    /\ calls[c].op = "setDashboard"
    /\ Continue
    /\ LET call == calls[c] IN
       \E ok \in BOOLEAN :
        IF ok
        THEN /\ redis' = redisSetEx(redis, ActivityKey(call.user), <<"raw", now>>,
                                    DASHBOARD_CACHE_EXPIRATION * 2, now)
             /\ last' = Done("set", "dashboard", call.user, call.arg,
                             RetValue(TRUE), call.pre, call.at)
        ELSE /\ redis' = redis
             /\ last' = Done("set", "dashboard", call.user, call.arg,
                             RetThrow("redis"), call.pre, call.at)
    /\ calls' = [calls EXCEPT ![c] = Idle]
    /\ UNCHANGED <<now, ticks>>

\* invalidateDashboard, invalidateSkillProgress, invalidateArticles, invalidateRecommendations
Invalidate(c, ns, userId) ==
    /\ calls[c] = Idle
    /\ Begin
    /\ \E ok \in BOOLEAN :
        IF ok
        THEN /\ redis' = redisDel(redis, Key2(ns, userId))
             /\ last' = Done("invalidate", ns, userId, Nil, RetValue(TRUE), Nil, now)
        ELSE /\ redis' = redis
             /\ last' = Done("invalidate", ns, userId, Nil, RetThrow("redis"), Nil, now)
    /\ UNCHANGED <<now, ticks, calls>>

\* setSkillProgress, line 98: read the existing skills
SetSkillProgress(c, userId, skills) ==
    /\ calls[c] = Idle
    /\ Begin
    /\ LET got == getCached(redis, "skills", userId) IN
       IF got.kind = "throw"
       THEN /\ calls' = calls
            /\ last' = Done("set", "skills", userId, skills, got, Nil, now)
       ELSE /\ calls' = [calls EXCEPT ![c] =
                   [op |-> "setSkillProgress", pc |-> "write", user |-> userId,
                    arg |-> skills,
                    existing |-> IF got.kind = "value" THEN got.value ELSE <<>>]]
            /\ last' = NoLast
    /\ UNCHANGED <<redis, now, ticks>>

\* setSkillProgress, lines 101-120: merge and write
\* a write that merges with the skills stored at the time of the write
SetSkillProgressWriteAtomic(c) ==
    /\ calls[c].op = "setSkillProgress"
    /\ Continue
    /\ LET call == calls[c]
           got == getCached(redis, "skills", call.user)
           existing == IF got.kind = "value" THEN got.value ELSE <<>> IN
       /\ redis' = setCached(redis, "skills", call.user,
                             MergeSkills(call.arg, existing), now)
       /\ last' = Done("set", "skills", call.user, call.arg, RetValue(TRUE),
                       existing, now)
    /\ calls' = [calls EXCEPT ![c] = Idle]
    /\ UNCHANGED <<now, ticks>>

SetSkillProgressWrite(c) ==
    /\ calls[c].op = "setSkillProgress"
    /\ Continue
    /\ LET call == calls[c]
           mergedSkills == MergeSkills(call.arg, call.existing) IN
       \E ok \in BOOLEAN :
        IF ok
        THEN /\ redis' = setCached(redis, "skills", call.user, mergedSkills, now)
             /\ last' = Done("set", "skills", call.user, call.arg, RetValue(TRUE),
                             call.existing, now)
        ELSE /\ redis' = redis
             /\ last' = Done("set", "skills", call.user, call.arg, RetThrow("redis"),
                             call.existing, now)
    /\ calls' = [calls EXCEPT ![c] = Idle]
    /\ UNCHANGED <<now, ticks>>

\* updateSkillProgress, line 129: read the skills
UpdateSkillProgress(c, userId, skillName, progressDelta) ==
    /\ calls[c] = Idle
    /\ Begin
    /\ LET got == getCached(redis, "skills", userId) IN
       IF got.kind = "throw"
       THEN /\ calls' = calls
            /\ last' = Done("update", "skills", userId, <<skillName, progressDelta>>,
                            got, Nil, now)
       ELSE /\ calls' = [calls EXCEPT ![c] =
                   [op |-> "updateSkillProgress", pc |-> "read", user |-> userId,
                    arg |-> <<skillName, progressDelta>>,
                    skills |-> IF got.kind = "value" THEN got.value ELSE <<>>]]
            /\ last' = NoLast
    /\ UNCHANGED <<redis, now, ticks>>

\* updateSkillProgress, lines 130-142: bump the skill, then setSkillProgress reads
\* the existing skills again (line 98)
UpdateSkillProgressSet(c) ==
    /\ calls[c].op = "updateSkillProgress"
    /\ Continue
    /\ calls[c].pc = "read"
    /\ LET call == calls[c]
           updatedSkills == BumpSkills(call.skills, call.arg[1], call.arg[2], now)
           got == getCached(redis, "skills", call.user) IN
       IF got.kind = "throw"
       THEN /\ calls' = [calls EXCEPT ![c] = Idle]
            /\ last' = Done("update", "skills", call.user, call.arg, got, call.skills, now)
       ELSE /\ calls' = [calls EXCEPT ![c] =
                   [op |-> "updateSkillProgress", pc |-> "write", user |-> call.user,
                    arg |-> call.arg, skills |-> call.skills,
                    updated |-> updatedSkills,
                    existing |-> IF got.kind = "value" THEN got.value ELSE <<>>]]
            /\ last' = NoLast
    /\ UNCHANGED <<redis, now, ticks>>

\* updateSkillProgress, lines 142-143: setSkillProgress merges and writes (lines
\* 101-120), and the updated skills are returned
UpdateSkillProgressWrite(c) ==
    /\ calls[c].op = "updateSkillProgress"
    /\ Continue
    /\ calls[c].pc = "write"
    /\ LET call == calls[c]
           mergedSkills == MergeSkills(call.updated, call.existing) IN
       \E ok \in BOOLEAN :
        IF ok
        THEN /\ redis' = setCached(redis, "skills", call.user, mergedSkills, now)
             /\ last' = Done("update", "skills", call.user, call.arg,
                             RetValue(call.updated), call.skills, now)
        ELSE /\ redis' = redis
             /\ last' = Done("update", "skills", call.user, call.arg,
                             RetThrow("redis"), call.skills, now)
    /\ calls' = [calls EXCEPT ![c] = Idle]
    /\ UNCHANGED <<now, ticks>>

\* invalidateAllUserCaches: Promise.all starts the four invalidations in one turn,
\* so the four DELs are issued together; each one succeeds or fails by itself, and
\* the call rejects when any of them failed (lines 262-272)
\* a fan-out that leaves the articles out
InvalidateAllDelsNoArticles(store, userId, failed) ==
    LET gone == {Key2(ns, userId) : ns \in (Namespaces \ {"articles"}) \ failed} IN
    [k \in DOMAIN store \ gone |-> store[k]]

InvalidateAllDels(store, userId, failed) ==
    LET gone == {Key2(ns, userId) : ns \in Namespaces \ failed} IN
    [k \in DOMAIN store \ gone |-> store[k]]

InvalidateAllResult(failed) ==
    IF failed = {} THEN RetValue(TRUE) ELSE RetThrow("redis")

InvalidateAllUserCaches(c, userId) ==
    /\ calls[c] = Idle
    /\ Begin
    /\ \E failed \in SUBSET Namespaces :
        /\ redis' = InvalidateAllDels(redis, userId, failed)
        /\ last' = Done("invalidateAll", "all", userId, failed,
                        InvalidateAllResult(failed),
                        {ns \in Namespaces : getCached(redis, ns, userId) # RetNull}, now)
    /\ UNCHANGED <<now, ticks, calls>>

\* the clock advances; Redis drops the keys whose expiry has passed
Tick(d) ==
    /\ ticks < MaxTicks
    /\ now' = now + d
    /\ ticks' = ticks + 1
    /\ redis' = Expire(redis, now + d)
    /\ UNCHANGED <<ncalls, calls, last>>
    /\ UNCHANGED jobVars

---------------------------------------------------------------------------
(* The content prioritizer: fetchDevBlogs and its per-skill article cache *)
MAX_ARTICLES_PER_SKILL == 3
CACHE_EXPIRATION == 21600
SecondsPerDay == 86400

\* String.prototype.toLowerCase on the skill names and tags in use
ToLower(name) ==
    CASE name = "JavaScript" -> "javascript"
      [] name = "React" -> "react"
      [] OTHER -> name

SkillArticlesKey(userId, skill) == <<"articles", userId, skill>>

\* articles as the sources' transforms shape them
Article(title, url, tag, publishedAt, readingTime, source) ==
    [title |-> title, url |-> url, tag |-> tag, publishedAt |-> publishedAt,
     readingTime |-> readingTime, source |-> source]

ArticleFresh == Article("Closures", "https://dev.to/closures", "javascript", 0 - 3600, 10, "DEV Community")
ArticleOld == Article("Decorators", "https://hashnode.com/post/decorators", "python",
                      0 - 365 * SecondsPerDay, 20, "Hashnode")

\* what fetchArticlesForSkill can resolve to: nothing (every source failed or had
\* nothing), or the filtered and deduplicated articles of the sources
Feeds == {<<>>, <<ArticleFresh>>, <<ArticleOld, ArticleFresh>>}

\* Array.prototype.slice(0, n)
Take(list, n) == [i \in 1..Min(Len(list), n) |-> list[i]]

\* Array.prototype.filter
RECURSIVE SelectGap(_)
SelectGap(list) ==
    IF list = <<>> THEN <<>>
    ELSE IF Head(list).gap > 0 THEN <<Head(list)>> \o SelectGap(Tail(list))
    ELSE SelectGap(Tail(list))

\* the place of element i after a stable sort into descending order of key
PlaceDesc(key, i) ==
    1 + Cardinality({j \in DOMAIN key : key[j] > key[i] \/ (key[j] = key[i] /\ j < i)})

\* Array.prototype.sort((a, b) => b.k - a.k), given the keys of the elements
SortDesc(list, key) ==
    [k \in 1..Len(list) |-> list[CHOOSE i \in 1..Len(list) : PlaceDesc(key, i) = k]]

\* x || d for a number x: zero is falsy
OrElse(x, d) == IF x = 0 THEN d ELSE x

\* lines 74-83: the skills with a positive gap, largest gap first, at most five
Prioritize(userSkills) ==
    LET gaps == [i \in 1..Len(userSkills) |->
                    [name |-> ToLower(userSkills[i].name),
                     gap |-> OrElse(userSkills[i].targetLevel, 50)
                                - OrElse(userSkills[i].level, 0),
                     category |-> userSkills[i].category]]
        positive == SelectGap(gaps) IN
    Take(SortDesc(positive, [i \in 1..Len(positive) |-> positive[i].gap]), 5)

\* calculateRelevance, in hundredths
calculateRelevance(skill, article, t) ==
    Min(skill.gap
          + (IF ToLower(article.tag) = ToLower(skill.name) THEN 30 ELSE 0)
          + (IF t - article.publishedAt < 7 * SecondsPerDay THEN 20 ELSE 0)
          + (IF article.readingTime >= 5 /\ article.readingTime <= 15 THEN 10 ELSE 0),
        100)

\* the cache lookup of one skill: a hit with the parsed list, a miss, or a parse error
CachedFor(store, userId, skill) ==
    LET data == redisGet(store, SkillArticlesKey(userId, skill.name)) IN
    IF data = Nil THEN [hit |-> FALSE, bad |-> FALSE]
    ELSE IF JSONparse(data).ok
         THEN [hit |-> TRUE, bad |-> FALSE, value |-> JSONparse(data).value]
         ELSE [hit |-> FALSE, bad |-> TRUE]

RECURSIVE Flatten(_)
Flatten(lists) == IF lists = <<>> THEN <<>> ELSE Head(lists) \o Flatten(Tail(lists))

\* lines 127-160: the articles of each skill, cached or fresh, tagged with the
\* skill and its relevance, the six most relevant first
Combine(prioritized, cached, fresh, t) ==
    LET perSkill == [i \in 1..Len(prioritized) |->
            LET articles == IF cached[i].hit THEN cached[i].value ELSE fresh[i] IN
            [k \in 1..Len(articles) |->
                [title |-> articles[k].title, url |-> articles[k].url,
                 tag |-> articles[k].tag, publishedAt |-> articles[k].publishedAt,
                 readingTime |-> articles[k].readingTime, source |-> articles[k].source,
                 skill |-> prioritized[i].name, category |-> prioritized[i].category,
                 relevance |-> calculateRelevance(prioritized[i], articles[k], t)]]]
        all == Flatten(perSkill) IN
    Take(SortDesc(all, [i \in 1..Len(all) |-> all[i].relevance]), 6)

\* fetchDevBlogs up to the cache lookups (lines 69-97).  The file takes redisGet
\* and redisSet from the exports of userDashboardCache: when they are not among
\* them the lookup throws a TypeError, which the catch block turns into [].
FetchDevBlogs(c, userId, skills) ==
    /\ calls[c] = Idle
    /\ Begin
    /\ LET read == getCached(redis, "skills", userId)
           userSkills == IF read.kind = "value" THEN read.value ELSE skills
           prioritized == Prioritize(userSkills)
           cached == [i \in 1..Len(prioritized) |->
                         CachedFor(redis, userId, prioritized[i])]
           return(v) == /\ calls' = calls
                        /\ last' = Done("fetchDevBlogs", "articles", userId, skills,
                                        RetValue(v), prioritized, now)
       IN IF read.kind = "throw" THEN return(<<>>)
          ELSE IF prioritized = <<>> THEN return(<<>>)
          ELSE \E bound \in BOOLEAN, ok \in BOOLEAN :
                 IF ~bound \/ ~ok \/ \E i \in 1..Len(cached) : cached[i].bad
                 THEN return(<<>>)
                 ELSE /\ calls' = [calls EXCEPT ![c] =
                             [op |-> "fetchDevBlogs", user |-> userId, arg |-> skills,
                              prioritized |-> prioritized, cached |-> cached]]
                      /\ last' = last
    /\ UNCHANGED <<redis, now, ticks>>

\* fetchDevBlogs from the fetches to the return (lines 99-160): the sources answer,
\* the fresh lists are cached for six hours, and the ranking is returned; a failed
\* SET makes the call return []
FetchDevBlogsStoreFrom(c, feeds) ==
    /\ calls[c].op = "fetchDevBlogs"
    /\ Continue
    /\ LET call == calls[c]
           n == Len(call.prioritized)
           toFetch == {i \in 1..n : ~call.cached[i].hit} IN
       \E feed \in [1..n -> feeds], failed \in SUBSET toFetch :
          LET fresh == [i \in 1..n |-> Take(feed[i], MAX_ARTICLES_PER_SKILL)]
              written == toFetch \ failed IN
          /\ \A i \in 1..n : i \notin toFetch => feed[i] = <<>>
          /\ redis' = [k \in DOMAIN redis
                             \cup {SkillArticlesKey(call.user, call.prioritized[i].name) :
                                      i \in written} |->
                         IF \E i \in written :
                               k = SkillArticlesKey(call.user, call.prioritized[i].name)
                         THEN LET i == CHOOSE i \in written :
                                  k = SkillArticlesKey(call.user, call.prioritized[i].name)
                              IN [val |-> JSONstringify(fresh[i]),
                                  exp |-> now + CACHE_EXPIRATION]
                         ELSE redis[k]]
          /\ last' = Done("fetchDevBlogs", "articles", call.user, call.arg,
                          RetValue(IF failed = {}
                                   THEN Combine(call.prioritized, call.cached, fresh, now)
                                   ELSE <<>>),
                          call.prioritized, now)
    /\ calls' = [calls EXCEPT ![c] = Idle]
    /\ UNCHANGED <<now, ticks>>

FetchDevBlogsStore(c) == FetchDevBlogsStoreFrom(c, Feeds)

---------------------------------------------------------------------------
(* Entity extraction (nerProcessor.js).  A JavaScript string is the sequence
   of its character codes; a value that is not a string carries its type. *)
NER_CACHE_EXPIRATION == 86400

String(codes) == [type |-> "string", codes |-> codes]
Undefined == [type |-> "undefined", codes |-> <<>>]
Number42 == [type |-> "number", codes |-> <<>>]

IsSpace(ch) == ch \in {9, 10, 13, 32}
IsUpper(ch) == ch >= 65 /\ ch <= 90
IsLetter(ch) == IsUpper(ch) \/ (ch >= 97 /\ ch <= 122)
\* \w of a regular expression
IsWord(ch) == IsLetter(ch) \/ (ch >= 48 /\ ch <= 57) \/ ch = 95

\* String.prototype.toLowerCase
toLowerCase(s) == [i \in 1..Len(s) |-> IF IsUpper(s[i]) THEN s[i] + 32 ELSE s[i]]

\* String.prototype.includes
includes(s, sub) ==
    \E i \in 0..(Len(s) - Len(sub)) : \A k \in 1..Len(sub) : s[i + k] = sub[k]

\* s.startsWith(sub, i - 1), positions counted from 1
StartsAt(s, sub, i) ==
    i + Len(sub) - 1 <= Len(s) /\ \A k \in 1..Len(sub) : s[i + k - 1] = sub[k]

\* String.prototype.trim
trim(s) ==
    LET keep == {i \in 1..Len(s) : ~IsSpace(s[i])} IN
    IF keep = {} THEN <<>>
    ELSE LET lo == CHOOSE i \in keep : \A j \in keep : i <= j
             hi == CHOOSE i \in keep : \A j \in keep : i >= j
         IN SubSeq(s, lo, hi)

\* [...new Set(list)]: the first occurrence of each element, in order
RECURSIVE Dedup(_)
Dedup(list) ==
    IF list = <<>> THEN <<>>
    ELSE LET rest == Dedup(SubSeq(list, 1, Len(list) - 1))
             x == list[Len(list)] IN
         IF \E i \in 1..Len(rest) : rest[i] = x THEN rest ELSE Append(rest, x)

\* hashText: hash = ((hash << 5) - hash + char) | 0 over the characters, that is
\* hash * 31 + char in 32 bits, kept as its high and low 16 bits
HalfWord == 65536

RECURSIVE HashCodes(_, _, _)
HashCodes(hi, lo, s) ==
    IF s = <<>> THEN <<hi, lo>>
    ELSE LET l == lo * 31 + Head(s) IN
         HashCodes((hi * 31 + l \div HalfWord) % HalfWord, l % HalfWord, Tail(s))

\* the 32 bits as the signed integer whose hexadecimal digits the key holds
ToInt32(w) ==
    IF w[1] >= HalfWord \div 2 THEN (w[1] - HalfWord) * HalfWord + w[2]
    ELSE w[1] * HalfWord + w[2]

hashText(text) ==
    IF text.type # "string" \/ text.codes = <<>> THEN <<"empty">>
    ELSE <<"hex", ToInt32(HashCodes(0, 0, text.codes))>>

NerKey(text) == <<"ner", hashText(text)>>

techKeywords == <<<<106, 97, 118, 97, 115, 99, 114, 105, 112, 116>>, <<114, 101, 97, 99, 116>>, <<110, 111, 100, 101>>, <<112, 121, 116, 104, 111, 110>>, <<106, 97, 118, 97>>, <<104, 116, 109, 108>>, <<99, 115, 115>>>>
eduKeywords == <<<<117, 110, 105, 118, 101, 114, 115, 105, 116, 121>>, <<99, 111, 108, 108, 101, 103, 101>>, <<105, 110, 115, 116, 105, 116, 117, 116, 101>>, <<115, 99, 104, 111, 111, 108>>, <<97, 99, 97, 100, 101, 109, 121>>>>
titleKeywords == <<<<101, 110, 103, 105, 110, 101, 101, 114>>, <<100, 101, 118, 101, 108, 111, 112, 101, 114>>, <<109, 97, 110, 97, 103, 101, 114>>, <<100, 105, 114, 101, 99, 116, 111, 114>>, <<115, 112, 101, 99, 105, 97, 108, 105, 115, 116>>>>

EmptyEntities ==
    [skills |-> <<>>, companies |-> <<>>, titles |-> <<>>, education |-> <<>>,
     certifications |-> <<>>]

\* Array.prototype.filter with a predicate on the elements, given as the set of
\* the places to keep
RECURSIVE KeepPlaces(_, _, _)
KeepPlaces(list, places, i) ==
    IF i > Len(list) THEN <<>>
    ELSE (IF i \in places THEN <<list[i]>> ELSE <<>>) \o KeepPlaces(list, places, i + 1)

\* the end of the longest run of characters of a class that starts at place i
\* (i - 1 when the run is empty)
RECURSIVE RunEnd(_, _, _)
RunEnd(s, i, letters) ==
    IF i <= Len(s) /\ (IF letters THEN IsLetter(s[i]) ELSE IsSpace(s[i]))
    THEN RunEnd(s, i + 1, letters)
    ELSE i - 1

\* /at\s+([A-Z][a-zA-Z]+)/ matched at place i: the place the match ends, 0 when
\* there is no match at i; the group starts after the white space
CompanyMatchEnd(s, i) ==
    LET sp == RunEnd(s, i + 2, FALSE)
        le == RunEnd(s, sp + 1, TRUE) IN
    IF StartsAt(s, <<97, 116>>, i) /\ sp >= i + 2
          /\ sp + 1 <= Len(s) /\ IsUpper(s[sp + 1]) /\ le >= sp + 2
    THEN le ELSE 0

\* /(university|college)\s+of\s+([A-Z][a-zA-Z]+)/i matched at place i with the
\* word of the first group: the place the match ends, 0 when there is none
EducationMatchEnd(s, i, word) ==
    LET low == toLowerCase(s)
        sp1 == RunEnd(s, i + Len(word), FALSE)
        sp2 == RunEnd(s, sp1 + 3, FALSE)
        le == RunEnd(s, sp2 + 1, TRUE) IN
    IF StartsAt(low, word, i) /\ sp1 >= i + Len(word)
          /\ StartsAt(low, <<111, 102>>, sp1 + 1) /\ sp2 >= sp1 + 3
          /\ le >= sp2 + 2
    THEN le ELSE 0

\* extractByPattern with the companies pattern: the first groups of the matches,
\* found from left to right, each search starting where the last match ended
RECURSIVE CompanyMatches(_, _)
CompanyMatches(s, i) ==
    IF i > Len(s) THEN <<>>
    ELSE LET e == CompanyMatchEnd(s, i) IN
         IF e = 0 THEN CompanyMatches(s, i + 1)
         ELSE <<SubSeq(s, RunEnd(s, i + 2, FALSE) + 1, e)>> \o CompanyMatches(s, e + 1)

\* extractByPattern with the education pattern: match[1] is the word university
\* or college as the text spells it
RECURSIVE EducationMatches(_, _)
EducationMatches(s, i) ==
    IF i > Len(s) THEN <<>>
    ELSE LET eu == EducationMatchEnd(s, i, <<117, 110, 105, 118, 101, 114, 115, 105, 116, 121>>)
             ec == EducationMatchEnd(s, i, <<99, 111, 108, 108, 101, 103, 101>>)
             e == IF eu # 0 THEN eu ELSE ec
             n == IF eu # 0 THEN 10 ELSE 7 IN
         IF e = 0 THEN EducationMatches(s, i + 1)
         ELSE <<SubSeq(s, i, i + n - 1)>> \o EducationMatches(s, e + 1)

\* a fallback that leaves a bucket out
fallbackWithoutCertifications(text) ==
    [skills |-> <<>>, companies |-> <<>>, titles |-> <<>>, education |-> <<>>]

fallbackEntityExtraction(text) ==
    IF text.type # "string" \/ text.codes = <<>> THEN EmptyEntities
    ELSE [skills |-> KeepPlaces(techKeywords,
                        {k \in 1..Len(techKeywords) :
                            includes(toLowerCase(text.codes), techKeywords[k])}, 1),
          companies |-> Dedup(CompanyMatches(text.codes, 1)),
          titles |-> <<>>,
          education |-> Dedup(EducationMatches(text.codes, 1)),
          certifications |-> <<>>]

\* cleanEntityText: a leading ## and every character that is not a word
\* character, white space or a hyphen are removed, and the ends trimmed
cleanEntityText(word) ==
    IF word.type # "string" \/ word.codes = <<>> THEN <<>>
    ELSE LET s == IF StartsAt(word.codes, <<35, 35>>, 1)
                  THEN SubSeq(word.codes, 3, Len(word.codes)) ELSE word.codes
             kept == KeepPlaces(s, {i \in 1..Len(s) :
                                      IsWord(s[i]) \/ IsSpace(s[i]) \/ s[i] = 45}, 1)
         IN trim(kept)

hasKeyword(s, keywords) ==
    \E k \in 1..Len(keywords) : includes(toLowerCase(s), keywords[k])

isEducationalInstitution(s) == s # <<>> /\ hasKeyword(s, eduKeywords)
isLikelyTitle(s) == s # <<>> /\ hasKeyword(s, titleKeywords)

\* the bucket the switch of processNERResults puts a token into, "" for none
BucketOf(token) ==
    LET s == cleanEntityText(token.word) IN
    IF token.word.type # "string" \/ token.word.codes = <<>> \/ token.entity = "" \/ s = <<>>
    THEN ""
    ELSE CASE token.entity \in {"B-TECH", "I-TECH"} -> IF Len(s) > 1 THEN "skills" ELSE ""
           [] token.entity \in {"B-ORG", "I-ORG"} ->
                 IF isEducationalInstitution(s) THEN "education" ELSE "companies"
           [] token.entity \in {"B-PER", "I-PER"} -> IF isLikelyTitle(s) THEN "titles" ELSE ""
           [] token.entity \in {"B-EDU", "I-EDU"} -> "education"
           [] token.entity \in {"B-CERT", "I-CERT"} -> "certifications"
           [] OTHER -> ""

\* lines 134-140: the texts of a bucket cleaned again, those of one character
\* dropped, duplicates removed
CleanBucket(tokens, bucket) ==
    LET mine == KeepPlaces(tokens, {i \in 1..Len(tokens) : BucketOf(tokens[i]) = bucket}, 1)
        texts == [i \in 1..Len(mine) |->
                     cleanEntityText(String(cleanEntityText(mine[i].word)))] IN
    Dedup(KeepPlaces(texts, {i \in 1..Len(texts) : Len(texts[i]) > 1}, 1))

\* processNERResults on the body of the response: a list of tagged tokens, or
\* anything else
processNERResults(data) ==
    IF data.type # "array" THEN EmptyEntities
    ELSE [skills |-> CleanBucket(data.tokens, "skills"),
          companies |-> CleanBucket(data.tokens, "companies"),
          titles |-> CleanBucket(data.tokens, "titles"),
          education |-> CleanBucket(data.tokens, "education"),
          certifications |-> CleanBucket(data.tokens, "certifications")]

\* the texts callers pass: no text, a number, blanks, two texts with one hash,
\* and a line of a resume ("react at Go")
Texts ==
    {Undefined, Number42, String(<<32, 32>>), String(<<65, 97>>), String(<<66, 66>>),
     String(<<114, 101, 97, 99, 116, 32, 97, 116, 32, 71, 111>>)}

\* tagged tokens of the inference service: "##React" as a technology, "Go" as
\* an organisation, and a token whose word is not a string
Tokens ==
    <<[word |-> String(<<35, 35, 82, 101, 97, 99, 116>>), entity |-> "B-TECH"],
      [word |-> String(<<71, 111>>), entity |-> "B-ORG"],
      [word |-> Number42, entity |-> "B-TECH"]>>

\* what the POST to the inference service settles with: a rejection (timeout or
\* error), or a response whose body is empty, an object that is no list, or a
\* list of tagged tokens
Responses ==
    {[kind |-> "reject", data |-> [type |-> "null", tokens |-> <<>>]],
     [kind |-> "resolve", data |-> [type |-> "null", tokens |-> <<>>]],
     [kind |-> "resolve", data |-> [type |-> "object", tokens |-> <<>>]],
     [kind |-> "resolve", data |-> [type |-> "array", tokens |-> Tokens]]}

\* line 25: !resumeText || typeof resumeText !== 'string' || resumeText.trim() === ''
InvalidText(text) ==
    text.type # "string" \/ text.codes = <<>> \/ trim(text.codes) = <<>>

NerDone(text, res, how) ==
    Done("extractEntities", "ner", how, text, res, redisGet(redis, NerKey(text)), now)

\* extractEntities up to the cache lookup (lines 24-40); every throw inside the
\* try block ends in fallbackEntityExtraction(resumeText)
ExtractEntities(c, text) ==
    /\ calls[c] = Idle
    /\ Begin
    /\ LET cached == redisGet(redis, NerKey(text))
           goOn(pc) == /\ calls' = [calls EXCEPT ![c] =
                             [op |-> "extractEntities", pc |-> pc, text |-> text,
                              entities |-> EmptyEntities, how |-> ""]]
                       /\ last' = last
           return(v, how) == calls' = calls /\ last' = NerDone(text, RetValue(v), how)
       IN IF InvalidText(text) THEN return(fallbackEntityExtraction(text), "invalid")
          ELSE \E ok \in BOOLEAN :
                 IF ~ok THEN return(fallbackEntityExtraction(text), "cache down")
                 ELSE IF cached = Nil THEN goOn("post")
                 ELSE IF JSONparse(cached).ok THEN return(JSONparse(cached).value, "hit")
                 ELSE goOn("del")
    /\ UNCHANGED <<redis, now, ticks>>

\* lines 36-39: the entry did not parse and is deleted
ExtractEntitiesDel(c) ==
    /\ calls[c].op = "extractEntities" /\ calls[c].pc = "del"
    /\ Continue
    /\ \E ok \in BOOLEAN :
        IF ok
        THEN /\ redis' = redisDel(redis, NerKey(calls[c].text))
             /\ calls' = [calls EXCEPT ![c].pc = "post"]
             /\ last' = last
        ELSE /\ redis' = redis
             /\ calls' = [calls EXCEPT ![c] = Idle]
             /\ last' = NerDone(calls[c].text,
                                RetValue(fallbackEntityExtraction(calls[c].text)),
                                "cache down")
    /\ UNCHANGED <<now, ticks>>

\* lines 43-59: the inference service settles
\* an extractEntities that caches what its fallback found
ExtractEntitiesPostCachingFallback(c, responses) ==
    /\ calls[c].op = "extractEntities" /\ calls[c].pc = "post"
    /\ Continue
    /\ \E r \in responses :
        calls' = [calls EXCEPT
            ![c].pc = "cache",
            ![c].how = IF r.kind = "reject" THEN "rejected" ELSE r.data.type,
            ![c].entities = IF r.kind = "reject" \/ r.data.type = "null"
                            THEN fallbackEntityExtraction(calls[c].text)
                            ELSE processNERResults(r.data)]
    /\ UNCHANGED <<redis, now, ticks, last>>

ExtractEntitiesPostFrom(c, responses) ==
    /\ calls[c].op = "extractEntities" /\ calls[c].pc = "post"
    /\ Continue
    /\ \E r \in responses :
        IF r.kind = "reject" \/ r.data.type = "null"
        THEN /\ calls' = [calls EXCEPT ![c] = Idle]
             /\ last' = NerDone(calls[c].text,
                                RetValue(fallbackEntityExtraction(calls[c].text)),
                                IF r.kind = "reject" THEN "rejected" ELSE "no data")
        ELSE /\ calls' = [calls EXCEPT ![c].pc = "cache", ![c].how = r.data.type,
                                       ![c].entities = processNERResults(r.data)]
             /\ last' = last
    /\ UNCHANGED <<redis, now, ticks>>

ExtractEntitiesPost(c) == ExtractEntitiesPostFrom(c, Responses)

\* lines 61-73: the entities are cached for a day, a failure of the SET is only
\* logged, and the entities are returned
ExtractEntitiesCache(c) ==
    /\ calls[c].op = "extractEntities" /\ calls[c].pc = "cache"
    /\ Continue
    /\ \E ok \in BOOLEAN :
        redis' = IF ok
                 THEN redisSetEx(redis, NerKey(calls[c].text),
                                 JSONstringify(calls[c].entities), NER_CACHE_EXPIRATION, now)
                 ELSE redis
    /\ calls' = [calls EXCEPT ![c] = Idle]
    /\ last' = NerDone(calls[c].text, RetValue(calls[c].entities), calls[c].how)
    /\ UNCHANGED <<now, ticks>>

\* an entry of the store comes to hold a string that is no JSON (written by
\* another client, or cut short)
Corrupt(key) ==
    /\ key \in DOMAIN redis
    /\ JSONparse(redis[key].val).ok
    /\ redis' = [redis EXCEPT ![key].val = <<"raw", "{">>]
    /\ UNCHANGED <<now, ticks, ncalls, calls, last>>
    /\ UNCHANGED jobVars

---------------------------------------------------------------------------
(* The resume queue and its processor (server.js) *)
Concurrency == 5
\* a burst is one upload more than the workers take at a time
MaxQueued == Concurrency + 1
JobUsers == {"u1", "anonymous"}
FileTypes == {"application/pdf", "text/plain"}
\* the types clients declare for the files they send
MimeTypes == FileTypes \cup {"image/png"}

\* fileFilter: allowedTypes.includes(file.mimetype)
fileFilter(mimetype) ==
    mimetype \in {"application/pdf",
                  "application/vnd.openxmlformats-officedocument.wordprocessingml.document",
                  "text/plain"}
JobId(j) == <<"1", "2", "3", "4", "5", "6", "7", "8">>[j]

\* resumeQueue.add(data) of the upload route passes no options: one attempt
UploadJobOpts == [attempts |-> 1]
\* resumeQueue.add({type: 'weekly-summary'}, {repeat, attempts: 3})
WeeklyJobOpts == [attempts |-> 3]

\* analyzeResumeWithAI: the fixed analysis (its score and its skills)
analysisResult == [score |-> 85, skills |-> <<"JavaScript", "Node.js", "MongoDB">>]

ResultKey(userId, jobId) == <<"resume", userId, jobId>>
FetchKey(jobId) == <<"resume", jobId>>

CompletedPayload(t) == [status |-> "completed", result |-> analysisResult, timestamp |-> t]

\* a failure entry that leaves the message out
FailedPayloadNoMessage(message, t) == [status |-> "failed", error |-> "", timestamp |-> t]

FailedPayload(message, t) == [status |-> "failed", error |-> message, timestamp |-> t]

\* a cleanup at the end of the try block instead of in finally
cleanupOnReturnOnly(fs, j, how) == IF how = "return" THEN fs \ {j} ELSE fs

\* finally: if (fs.existsSync(filePath)) fs.unlinkSync(filePath), on return and on throw
cleanup(fs, j, how) == IF j \in fs THEN fs \ {j} ELSE fs

NewJob(kind, userId, fileType, opts) ==
    [kind |-> kind, userId |-> userId, fileType |-> fileType,
     attempts |-> opts.attempts, attemptsMade |-> 0,
     state |-> "waiting", pc |-> "", error |-> "", stageError |-> ""]

Active == {j \in 1..Len(jobs) : jobs[j].state = "active"}

\* POST /api/upload-resume with an accepted file: multer stores it, the job is added
UploadWithin(n, userId, fileType) ==
    /\ Len(jobs) < n
    /\ fileFilter(fileType)
    /\ jobs' = Append(jobs, NewJob("resume", userId, fileType, UploadJobOpts))
    /\ waitq' = Append(waitq, Len(jobs) + 1)
    /\ files' = files \cup {Len(jobs) + 1}
    /\ UNCHANGED <<db, fetched, faults>>
    /\ UNCHANGED cacheVars

Upload(userId, fileType) == UploadWithin(MaxJobs, userId, fileType)

\* scheduleJobs: the weekly summary comes due and is added to the resume queue
WeeklySummary ==
    /\ Len(jobs) < MaxJobs
    /\ jobs' = Append(jobs, NewJob("weekly-summary", "undefined", "undefined", WeeklyJobOpts))
    /\ waitq' = Append(waitq, Len(jobs) + 1)
    /\ UNCHANGED <<files, db, fetched, faults>>
    /\ UNCHANGED cacheVars

\* a worker that takes the job at the head of the queue whatever is in flight
PickNoLimit(j) ==
    /\ waitq # <<>>
    /\ j = Head(waitq)
    /\ waitq' = Tail(waitq)
    /\ jobs' = [jobs EXCEPT ![j] =
          [@ EXCEPT !.state = "active", !.pc = "extract", !.error = "",
                    !.stageError = ""]]
    /\ UNCHANGED <<files, db, fetched, faults>>
    /\ UNCHANGED cacheVars

\* a worker takes the job at the head of the queue and calls the processor, which
\* runs to its first await (extractTextFromFile)
Pick(j) ==
    /\ waitq # <<>>
    /\ j = Head(waitq)
    /\ Cardinality(Active) < Concurrency
    /\ waitq' = Tail(waitq)
    /\ jobs' = [jobs EXCEPT ![j] =
          [@ EXCEPT !.state = "active", !.pc = "extract", !.error = "",
                    !.stageError = ""]]
    /\ UNCHANGED <<files, db, fetched, faults>>
    /\ UNCHANGED cacheVars

\* a call to Redis or to MongoDB succeeds, or fails while failures are left
Fault(ok) ==
    /\ ok \/ faults > 0
    /\ faults' = IF ok THEN faults ELSE faults - 1

\* a stage threw: the catch block (lines 493-499) starts the write of the failure entry
Caught(j, message) ==
    jobs' = [jobs EXCEPT ![j] =
        [@ EXCEPT !.pc = "setFailed", !.error = message, !.stageError = message]]

\* the messages extractTextFromFile can throw for the job, "" when it can return
ExtractOutcomes(j) ==
    IF jobs[j].fileType \notin {"application/pdf",
           "application/vnd.openxmlformats-officedocument.wordprocessingml.document",
           "text/plain"}
    THEN {"Unsupported file type"}
    ELSE IF j \notin files THEN {"ENOENT: no such file or directory"}
    ELSE IF jobs[j].fileType = "text/plain" THEN {""}
    ELSE {"", "document could not be parsed"}

\* lines 460-472: the text is extracted, the analysis made, the record built and its save started
Extract(j) ==
    /\ jobs[j].state = "active" /\ jobs[j].pc = "extract"
    /\ \E e \in ExtractOutcomes(j) :
        IF e = "" THEN jobs' = [jobs EXCEPT ![j].pc = "save"] ELSE Caught(j, e)
    /\ UNCHANGED <<waitq, files, db, fetched, faults>>
    /\ UNCHANGED cacheVars

\* line 472: resumeAnalysis.save()
Save(j) ==
    /\ jobs[j].state = "active" /\ jobs[j].pc = "save"
    /\ \E ok \in BOOLEAN :
        /\ Fault(ok)
        /\ IF ok
           THEN /\ db' = [db EXCEPT !.saved = @ \cup {j}]
                /\ jobs' = [jobs EXCEPT ![j].pc = "update"]
           ELSE /\ db' = db
                /\ Caught(j, "save failed")
    /\ UNCHANGED <<waitq, files, fetched>>
    /\ UNCHANGED cacheVars

\* an update of the user whose failure is not noticed
UpdateUserUnchecked(j) ==
    /\ jobs[j].state = "active" /\ jobs[j].pc = "update"
    /\ \E ok \in BOOLEAN :
        /\ Fault(ok)
        /\ db' = IF ok THEN [db EXCEPT !.updated = @ \cup {j}] ELSE db
        /\ jobs' = [jobs EXCEPT ![j].pc = "setResult"]
    /\ UNCHANGED <<waitq, files, fetched>>
    /\ UNCHANGED cacheVars

\* lines 474-482: User.findByIdAndUpdate
UpdateUser(j) ==
    /\ jobs[j].state = "active" /\ jobs[j].pc = "update"
    /\ \E ok \in BOOLEAN :
        /\ Fault(ok)
        /\ IF ok
           THEN /\ db' = [db EXCEPT !.updated = @ \cup {j}]
                /\ jobs' = [jobs EXCEPT ![j].pc = "setResult"]
           ELSE /\ db' = db
                /\ Caught(j, "update failed")
    /\ UNCHANGED <<waitq, files, fetched>>
    /\ UNCHANGED cacheVars

\* lines 484-488: the result entry
SetResult(j) ==
    /\ jobs[j].state = "active" /\ jobs[j].pc = "setResult"
    /\ \E ok \in BOOLEAN :
        /\ Fault(ok)
        /\ IF ok
           THEN /\ redis' = redisSet(redis, ResultKey(jobs[j].userId, JobId(j)),
                                     JSONstringify(CompletedPayload(now)))
                /\ jobs' = [jobs EXCEPT ![j].pc = "invalidate"]
           ELSE /\ redis' = redis
                /\ Caught(j, "redis set failed")
    /\ UNCHANGED <<waitq, files, db, fetched, now, ticks, ncalls, calls, last>>

\* the processor leaves by return or by throw: finally runs, and Bull marks the job
\* completed, or failed when no attempt is left, or puts it back on the queue
Exit(j, how, message) ==
    LET made == jobs[j].attemptsMade + 1
        state == IF how = "return" THEN "completed"
                 ELSE IF made < jobs[j].attempts THEN "waiting" ELSE "failed" IN
    /\ files' = cleanup(files, j, how)
    /\ waitq' = IF state = "waiting" THEN Append(waitq, j) ELSE waitq
    /\ jobs' = [jobs EXCEPT ![j] =
          [@ EXCEPT !.state = state, !.pc = "", !.attemptsMade = made,
                    !.error = message]]

\* line 490: invalidateAllUserCaches(userId); on success the processor returns (492),
\* on a failure the catch block takes over
InvalidateJob(j) ==
    /\ jobs[j].state = "active" /\ jobs[j].pc = "invalidate"
    /\ \E failed \in SUBSET Namespaces :
        /\ Fault(failed = {})
        /\ redis' = InvalidateAllDels(redis, jobs[j].userId, failed)
        /\ IF InvalidateAllResult(failed).kind = "throw"
           THEN /\ Caught(j, "redis del failed")
                /\ UNCHANGED <<waitq, files>>
           ELSE Exit(j, "return", "")
    /\ UNCHANGED <<db, fetched, now, ticks, ncalls, calls, last>>

\* lines 495-500: the failure entry is written and the error rethrown; when the write
\* itself fails, its error is the one thrown
SetFailed(j) ==
    /\ jobs[j].state = "active" /\ jobs[j].pc = "setFailed"
    /\ \E ok \in BOOLEAN :
        /\ Fault(ok)
        /\ IF ok
           THEN /\ redis' = redisSet(redis, ResultKey(jobs[j].userId, JobId(j)),
                                     JSONstringify(FailedPayload(jobs[j].error, now)))
                /\ Exit(j, "throw", jobs[j].error)
           ELSE /\ redis' = redis
                /\ Exit(j, "throw", "redis write failed in catch")
    /\ UNCHANGED <<db, fetched, now, ticks, ncalls, calls, last>>

\* GET /api/resume-analysis/:jobId, lines 396-410
GetAnalysis(j) ==
    /\ \E ok \in BOOLEAN :
        LET result == redisGet(redis, FetchKey(JobId(j)))
            answer == IF ~ok THEN [status |-> 500, body |-> "Failed to fetch analysis"]
                      ELSE IF result = Nil
                           THEN [status |-> 404, body |-> "Analysis not found"]
                      ELSE IF JSONparse(result).ok
                           THEN [status |-> 200, body |-> JSONparse(result).value]
                      ELSE [status |-> 500, body |-> "Failed to fetch analysis"] IN
        fetched' = [jobId |-> JobId(j), answer |-> answer,
                    jobState |-> IF j \in 1..Len(jobs) THEN jobs[j].state ELSE "none"]
    /\ UNCHANGED <<jobs, waitq, files, db, faults>>
    /\ UNCHANGED cacheVars

Init ==
    /\ redis = <<>>
    /\ now = 0
    /\ ticks = 0
    /\ ncalls = 0
    /\ calls = [c \in Callers |-> Idle]
    /\ last = NoLast
    /\ jobs = <<>>
    /\ waitq = <<>>
    /\ files = {}
    /\ db = [saved |-> {}, updated |-> {}]
    /\ fetched = [jobId |-> "none"]
    /\ faults = MaxFaults

\* the server after startup, with fewer failures of Redis and MongoDB to come
InitQueue ==
    /\ redis = <<>>
    /\ now = 0
    /\ ticks = 0
    /\ ncalls = 0
    /\ calls = [c \in Callers |-> Idle]
    /\ last = NoLast
    /\ jobs = <<>>
    /\ waitq = <<>>
    /\ files = {}
    /\ db = [saved |-> {}, updated |-> {}]
    /\ fetched = [jobId |-> "none"]
    /\ faults = QueueFaults

\* callers of the cache layer, one call at a time, and the clock
Next ==
    \/ \E u \in Users, ns \in Namespaces : AllIdle /\ Get("c1", ns, u)
    \/ \E u \in Users, ns \in Namespaces, v \in Payloads : AllIdle /\ SetSimple("c1", ns, u, v)
    \/ \E u \in Users, v \in Payloads : AllIdle /\ SetDashboard("c1", u, v)
    \/ \E u \in Users, ns \in Namespaces : AllIdle /\ Invalidate("c1", ns, u)
    \/ \E u \in Users, skills \in SkillLists : AllIdle /\ SetSkillProgress("c1", u, skills)
    \/ \E u \in Users, n \in SkillNames, d \in Deltas :
          AllIdle /\ UpdateSkillProgress("c1", u, n, d)
    \/ \E u \in Users : AllIdle /\ InvalidateAllUserCaches("c1", u)
    \/ SetDashboardActivity("c1")
    \/ SetSkillProgressWrite("c1")
    \/ UpdateSkillProgressSet("c1")
    \/ UpdateSkillProgressWrite("c1")
    \/ \E d \in TickSteps : Tick(d)

Spec == Init /\ [][Next]_vars

\* the queue at work
NextJob ==
    \/ \E u \in JobUsers, t \in MimeTypes : Upload(u, t)
    \/ WeeklySummary
    \/ \E j \in 1..Len(jobs) : Pick(j)
    \/ \E j \in 1..Len(jobs) : Extract(j)
    \/ \E j \in 1..Len(jobs) : Save(j)
    \/ \E j \in 1..Len(jobs) : UpdateUser(j)
    \/ \E j \in 1..Len(jobs) : SetResult(j)
    \/ \E j \in 1..Len(jobs) : InvalidateJob(j)
    \/ \E j \in 1..Len(jobs) : SetFailed(j)

SpecJob == Init /\ [][NextJob]_vars

\* a burst of uploads of one user, more than the workers take at a time
NextQueue ==
    \/ \E u \in Users : UploadWithin(MaxQueued, u, "text/plain")
    \/ \E j \in 1..Len(jobs) : Pick(j)
    \/ \E j \in 1..Len(jobs) : Extract(j)
    \/ \E j \in 1..Len(jobs) : Save(j)
    \/ \E j \in 1..Len(jobs) : UpdateUser(j)
    \/ \E j \in 1..Len(jobs) : SetResult(j)
    \/ \E j \in 1..Len(jobs) : InvalidateJob(j)
    \/ \E j \in 1..Len(jobs) : SetFailed(j)

SpecQueue == InitQueue /\ [][NextQueue]_vars

\* the queue at work on one upload of a user for whom the content prioritizer
\* ranks articles
NextArticles ==
    \/ \E u \in Users : UploadWithin(1, u, "text/plain")
    \/ \E j \in 1..Len(jobs) : Pick(j)
    \/ \E j \in 1..Len(jobs) : Extract(j)
    \/ \E j \in 1..Len(jobs) : Save(j)
    \/ \E j \in 1..Len(jobs) : UpdateUser(j)
    \/ \E j \in 1..Len(jobs) : SetResult(j)
    \/ \E j \in 1..Len(jobs) : InvalidateJob(j)
    \/ \E j \in 1..Len(jobs) : SetFailed(j)
    \/ \E u \in Users, ns \in {"articles", "recommendations"}, v \in Payloads :
          AllIdle /\ SetSimple("c1", ns, u, v)
    \/ \E u \in Users, skills \in SkillLists : AllIdle /\ FetchDevBlogs("c1", u, skills)
    \/ FetchDevBlogsStore("c1")

SpecArticles == Init /\ [][NextArticles]_vars

\* callers of extractEntities, one call at a time, over a store whose entries
\* can be corrupted and expire
NextNER ==
    \/ \E text \in Texts : AllIdle /\ ExtractEntities("c1", text)
    \/ ExtractEntitiesDel("c1")
    \/ ExtractEntitiesPost("c1")
    \/ ExtractEntitiesCache("c1")
    \/ \E key \in DOMAIN redis : AllIdle /\ Corrupt(key)
    \/ \E d \in TickSteps : Tick(d)

SpecNER == Init /\ [][NextNER]_vars

\* callers of extractEntities and of the getters and setters of the cache layer,
\* one call at a time, over a store whose entries can be corrupted
NextCorrupt ==
    \/ \E text \in Texts : AllIdle /\ ExtractEntities("c1", text)
    \/ ExtractEntitiesDel("c1")
    \/ ExtractEntitiesPost("c1")
    \/ ExtractEntitiesCache("c1")
    \/ \E u \in Users, ns \in Namespaces : AllIdle /\ Get("c1", ns, u)
    \/ \E u \in Users, ns \in Namespaces, v \in Payloads : AllIdle /\ SetSimple("c1", ns, u, v)
    \/ \E u \in Users, v \in Payloads : AllIdle /\ SetDashboard("c1", u, v)
    \/ SetDashboardActivity("c1")
    \/ \E u \in Users, skills \in SkillLists : AllIdle /\ SetSkillProgress("c1", u, skills)
    \/ SetSkillProgressWrite("c1")
    \/ \E key \in DOMAIN redis : AllIdle /\ Corrupt(key)

SpecCorrupt == Init /\ [][NextCorrupt]_vars

\* what a worker and the event loop do for job j
JobStep(j) ==
    /\ j \in 1..Len(jobs)
    /\ \/ Pick(j) \/ Extract(j) \/ Save(j) \/ UpdateUser(j)
       \/ SetResult(j) \/ InvalidateJob(j) \/ SetFailed(j)

\* the queue at work with workers that do not stall: a job that can be taken is
\* taken, and every await of a processor settles
SpecJobFair == SpecJob /\ \A j \in 1..MaxJobs : WF_vars(JobStep(j))

\* the queue at work, and clients asking for the results of jobs by their ids
NextFetch ==
    \/ NextJob
    \/ \E j \in 1..(MaxJobs + 1) : GetAnalysis(j)

SpecFetch == Init /\ [][NextFetch]_vars

\* the queue at work on the uploads of the users whose skills callers of the cache
\* layer store beside it
NextJobSkills ==
    \/ \E u \in Users, t \in FileTypes : Upload(u, t)
    \/ \E j \in 1..Len(jobs) : Pick(j)
    \/ \E j \in 1..Len(jobs) : Extract(j)
    \/ \E j \in 1..Len(jobs) : Save(j)
    \/ \E j \in 1..Len(jobs) : UpdateUser(j)
    \/ \E j \in 1..Len(jobs) : SetResult(j)
    \/ \E j \in 1..Len(jobs) : InvalidateJob(j)
    \/ \E j \in 1..Len(jobs) : SetFailed(j)
    \/ \E u \in Users, r \in SkillRecs : AllIdle /\ SetSkillProgress("c1", u, <<r>>)
    \/ SetSkillProgressWrite("c1")

SpecJobSkills == Init /\ [][NextJobSkills]_vars

---------------------------------------------------------------------------
(* Properties of the cache layer, checked under Spec *)

\* the expiry the specification gives each namespace
StatedTTL(ns) ==
    CASE ns = "dashboard" -> 3600
      [] ns = "skills" -> 86400
      [] ns = "articles" -> 21600
      [] ns = "recommendations" -> 1800

SetDone(ns) == last.op = "set" /\ last.ns = ns /\ last.res = RetValue(TRUE)

\* what a following get must return after a set of value at second last.at
ReadsBack(value) ==
    getCached(redis, last.ns, last.user) =
        IF now - last.at < StatedTTL(last.ns) THEN RetValue(value) ELSE RetNull

HasName(list, name) == \E j \in 1..Len(list) : list[j].name = name

\* the merge as the specification words it: progress and lastPracticed of the
\* stored record with the same name, every other field of the incoming record
MergedAsStated(incoming, stored) ==
    [i \in 1..Len(incoming) |->
        IF HasName(stored, incoming[i].name)
        THEN LET old == stored[CHOOSE j \in 1..Len(stored) :
                                /\ stored[j].name = incoming[i].name
                                /\ \A k \in 1..(j - 1) : stored[k].name # incoming[i].name]
             IN [name |-> incoming[i].name, level |-> incoming[i].level,
                 targetLevel |-> incoming[i].targetLevel,
                 category |-> incoming[i].category,
                 progress |-> old.progress, lastPracticed |-> old.lastPracticed]
        ELSE incoming[i]]

\* C1 as stated: in each of the four namespaces, a set of v for u followed by a
\* get for u returns v until the namespace's TTL has elapsed and absent from then
\* on, whatever was stored for u before
C1_RoundTripAllNamespaces ==
    \A ns \in Namespaces : SetDone(ns) => ReadsBack(last.arg)

\* C1 as amended: that round trip holds for dashboard, articles and
\* recommendations; a set of skills reads back as v with progress and
\* lastPracticed of the same-named records stored before (v itself when no name
\* matches), until the TTL has elapsed and absent from then on
C1_RoundTripMergedSkills ==
    /\ \A ns \in Namespaces \ {"skills"} : SetDone(ns) => ReadsBack(last.arg)
    /\ SetDone("skills") =>
          /\ ReadsBack(MergedAsStated(last.arg, last.pre))
          /\ (\A i \in 1..Len(last.arg) : ~HasName(last.pre, last.arg[i].name))
                => ReadsBack(last.arg)

\* C1's case: a dashboard set over another stored dashboard, read back half an hour later
C1_Witness ==
    /\ SetDone("dashboard")
    /\ last.pre.kind = "value" /\ last.pre.value # last.arg
    /\ now - last.at = 1800
    /\ getCached(redis, "dashboard", last.user) = RetValue(last.arg)

\* C2: after invalidateAllUserCaches(u) has completed, a get for u returns absent
\* in each of the four namespaces, whatever was stored before
C2_InvalidateAllClears ==
    (last.op = "invalidateAll" /\ last.res = RetValue(TRUE))
        => \A ns \in Namespaces : getCached(redis, ns, last.user) = RetNull

\* C2's case: the call completed with entries of two namespaces stored before it
C2_Witness ==
    /\ last.op = "invalidateAll" /\ last.res = RetValue(TRUE)
    /\ Cardinality(last.pre) >= 2

\* C3: setSkillProgress stores one record per incoming record, with progress and
\* lastPracticed of the stored record of the same name and every other field of
\* the incoming one, and an incoming record without a match as it is
C3_SkillMerge ==
    (SetDone("skills") /\ now - last.at < StatedTTL("skills"))
        => /\ getCached(redis, "skills", last.user).kind = "value"
           /\ getCached(redis, "skills", last.user).value
                 = MergedAsStated(last.arg, last.pre)

\* C3's case: JavaScript is stored with progress 40, and JavaScript at another level
\* and without progress comes in together with a skill that is not stored
C3_Witness ==
    /\ SetDone("skills") /\ now = last.at
    /\ Len(last.arg) = 2 /\ Len(last.pre) = 1
    /\ last.pre[1].name = "JavaScript" /\ last.pre[1].progress = 40
    /\ last.arg[1].name = "JavaScript" /\ last.arg[1].level = 70 /\ last.arg[1].progress = 0
    /\ getCached(redis, "skills", last.user).value[1].progress = 40
    /\ getCached(redis, "skills", last.user).value[1].level = 70
    /\ getCached(redis, "skills", last.user).value[2] = last.arg[2]

\* the skills as updateSkillProgress is specified to leave them
BumpedAsStated(stored, name, delta, t) ==
    [i \in 1..Len(stored) |->
        IF stored[i].name = name
        THEN [stored[i] EXCEPT !.progress = Min(stored[i].progress + delta, 100),
                               !.lastPracticed = t]
        ELSE stored[i]]

\* C4 as stated: after updateSkillProgress(u, name, delta) on a stored set that
\* has the skill, a following getSkillProgress(u) returns it with progress
\* min(old + delta, 100) and a fresh lastPracticed, the other skills unchanged,
\* and the stored set is the set the call returned
C4_UpdateIsStored ==
    (/\ last.op = "update" /\ last.res.kind = "value"
     /\ HasName(last.pre, last.arg[1])
     /\ now = last.at)
        => /\ getCached(redis, "skills", last.user) = last.res
           /\ \E t \in 0..now :
                 getCached(redis, "skills", last.user)
                     = RetValue(BumpedAsStated(last.pre, last.arg[1], last.arg[2], t))

\* C6 as stated: when one namespace's delete fails, the other three entries are
\* deleted and the call does not fail its caller
C6_OneFailureDoesNotFailTheCall ==
    (last.op = "invalidateAll" /\ Cardinality(last.arg) = 1)
        => /\ \A ns \in Namespaces \ last.arg :
                 getCached(redis, ns, last.user) = RetNull
           /\ last.res.kind # "throw"

---------------------------------------------------------------------------
(* Properties of the resume queue, checked under SpecJob and SpecJobSkills *)

\* the skills entry of the user, the empty list when there is none
SkillsOf(store, userId) ==
    IF getCached(store, "skills", userId).kind = "value"
    THEN getCached(store, "skills", userId).value
    ELSE <<>>

Detected == {analysisResult.skills[i] : i \in 1..Len(analysisResult.skills)}

\* every stored record of a detected skill is still stored with its progress and
\* its lastPracticed
KeepsProgress(before, after) ==
    \A i \in 1..Len(before) :
        before[i].name \in Detected
            => \E k \in 1..Len(after) :
                  /\ after[k].name = before[i].name
                  /\ after[k].progress = before[i].progress
                  /\ after[k].lastPracticed = before[i].lastPracticed

\* C5 as stated: when a resume analysis job of user u completes, the progress and
\* lastPracticed u had for a skill the analysis detects again are still in u's
\* skills entry after the job
C5_AnalysisKeepsProgress ==
    [][\A j \in 1..Len(jobs) :
          (jobs[j].state = "active" /\ jobs'[j].state = "completed")
              => KeepsProgress(SkillsOf(redis, jobs[j].userId),
                               SkillsOf(redis', jobs[j].userId))]_vars

\* the processor has been called for the job and has exited
Exited(j) == jobs[j].attemptsMade > 0 /\ jobs[j].pc = ""

\* C7: once the processor has exited, the uploaded file of the job is gone, on
\* every exit path: success, a stage throwing, a failure of the write of the
\* result entry, of the failure entry or of the invalidation
C7_FileGoneAfterExit ==
    \A j \in 1..Len(jobs) : Exited(j) => j \notin files

\* C7's case: an upload whose invalidation threw and whose failure entry could
\* not be written either has left the processor, and its file is gone
C7_Witness ==
    \E j \in 1..Len(jobs) :
        /\ jobs[j].kind = "resume" /\ Exited(j)
        /\ jobs[j].stageError = "redis del failed"
        /\ jobs[j].error = "redis write failed in catch"
        /\ j \notin files

\* the entry resume:{userId}:{jobId} is a failure entry with the message
HoldsFailure(j, message) ==
    LET p == JSONparse(redisGet(redis, ResultKey(jobs[j].userId, JobId(j)))) IN
    /\ p.ok
    /\ p.value.status = "failed"
    /\ p.value.error = message
    /\ p.value.timestamp \in 0..now

\* the processor threw on the last attempt the job had
ThrewForGood(j) ==
    Exited(j) /\ jobs[j].stageError # "" /\ jobs[j].attemptsMade >= jobs[j].attempts

C9_UploadIsRetried ==
    \A j \in 1..Len(jobs) :
        (jobs[j].kind = "resume" /\ jobs[j].state = "failed")
            => jobs[j].attemptsMade >= 2

\* C10 as stated: retrieval with the id of a job that has reached a terminal
\* state answers with the payload the processor wrote for the job at
\* resume:{userId}:{jobId}
C10_RetrievalReturnsPayload ==
    \A j \in 1..Len(jobs) :
        LET written == JSONparse(redisGet(redis, ResultKey(jobs[j].userId, JobId(j)))) IN
        (/\ fetched.jobId = JobId(j)
         /\ fetched.jobState \in {"completed", "failed"}
         /\ fetched.answer.status # 500
         /\ written.ok)
            => /\ fetched.answer.status = 200
               /\ fetched.answer.body = written.value

Terminal(j) == jobs[j].state \in {"completed", "failed"}

\* what GET /api/resume-analysis/{id of job j} finds now is a terminal payload
PollIsTerminal(j) ==
    LET p == JSONparse(redisGet(redis, FetchKey(JobId(j)))) IN
    p.ok /\ p.value.status \in {"completed", "failed"}

\* every job reaches a terminal state when the workers do not stall
JobsTerminate ==
    \A j \in 1..MaxJobs : (j <= Len(jobs)) ~> (j <= Len(jobs) /\ Terminal(j))

\* C11 as stated: with workers that do not stall, every submitted job reaches a
\* terminal state, and from then on a poller of the job's entry by the job's id
\* is answered with a terminal status, completed or failed
C11_PollersGetTerminalAnswer ==
    \A j \in 1..MaxJobs :
        (j <= Len(jobs)) ~> [](j <= Len(jobs) /\ Terminal(j) /\ PollIsTerminal(j))

\* job j is started for the first time
Started(j) == jobs[j].state = "waiting" /\ jobs[j].attemptsMade = 0 /\ jobs'[j].state = "active"

\* a job is started only when every job submitted before it has been started
StartsInOrder ==
    \A j \in 1..Len(jobs) :
        Started(j) => \A i \in 1..(j - 1) :
                          jobs[i].state # "waiting" \/ jobs[i].attemptsMade > 0

SkillArticleKeys(store, userId) ==
    {k \in DOMAIN store : Len(k) = 3 /\ k[1] = "articles" /\ k[2] = userId}

C14_OnlySupportedDocumentsQueued ==
    \A j \in 1..Len(jobs) :
        /\ jobs[j].kind = "resume"
        /\ jobs[j].fileType \in
              {"application/pdf",
               "application/vnd.openxmlformats-officedocument.wordprocessingml.document",
               "text/plain"}

\* the messages of the errors extraction throws
ExtractionErrors ==
    {"Unsupported file type", "ENOENT: no such file or directory",
     "document could not be parsed"}

\* C15 as stated: extraction of a document that is not PDF, DOCX or plain text
\* fails as unsupported, and a job that fails in extraction is attempted exactly
\* once and never retried
C15_ExtractionFailureIsFinal ==
    \A j \in 1..Len(jobs) :
        /\ (jobs[j].pc = "setFailed" /\ ~fileFilter(jobs[j].fileType)
               /\ jobs[j].stageError \in ExtractionErrors)
              => jobs[j].stageError = "Unsupported file type"
        /\ (Exited(j) /\ jobs[j].stageError \in ExtractionErrors)
              => jobs[j].state = "failed" /\ jobs[j].attemptsMade = 1

---------------------------------------------------------------------------
(* Properties of entity extraction and of corrupt entries *)

IsList(v) == DOMAIN v = 1..Len(v)

\* an object with the five buckets, each a list
WellFormedEntities(v) ==
    /\ DOMAIN v = {"skills", "companies", "titles", "education", "certifications"}
    /\ IsList(v.skills) /\ IsList(v.companies) /\ IsList(v.titles)
    /\ IsList(v.education) /\ IsList(v.certifications)

\* C16: for every text and whatever the cache and the inference service do,
\* extractEntities returns an object with the five list-valued buckets and never
\* throws
C16_EntitiesAlwaysWellFormed ==
    last.op = "extractEntities"
        => last.res.kind = "value" /\ WellFormedEntities(last.res.value)

\* C16's case: the cache was down for a resume line and the keyword pass found
\* the skill and the company in it
C16_Witness ==
    /\ last.op = "extractEntities" /\ last.user = "cache down"
    /\ last.arg.type = "string" /\ Len(last.arg.codes) = 11
    /\ Len(last.res.value.skills) = 1 /\ Len(last.res.value.companies) = 1

\* C17 as stated: when the inference service times out, errors, or answers with
\* a body that is no list of tagged tokens, extractEntities returns the keyword
\* fallback over the same text
C17_MalformedResponseFallsBack ==
    (last.op = "extractEntities" /\ last.user \in {"rejected", "no data", "object"})
        => last.res = RetValue(fallbackEntityExtraction(last.arg))

\* a getter of the cache layer has just been called and has returned or thrown
GetStep == ncalls' = ncalls + 1 /\ calls' = calls /\ last'.op = "get"

\* C18 as stated: a getter that finds malformed JSON in the entry discards the
\* entry and answers as on a miss; the parse error does not reach the caller
C18_CorruptEntryIsAMiss ==
    [][(/\ GetStep
        /\ Key2(last'.ns, last'.user) \in DOMAIN redis
        /\ ~JSONparse(redis[Key2(last'.ns, last'.user)].val).ok)
          => /\ last'.res = RetNull
             /\ Key2(last'.ns, last'.user) \notin DOMAIN redis']_vars

---------------------------------------------------------------------------
(* Sentiment analysis (processResume.js) *)

\* a number in hundredths: confidences are fractions of one
Hundredths(n) == [type |-> "number", hundredths |-> n]
JsNull == [type |-> "null"]
JsArray(items) == [type |-> "array", items |-> items]
Joy == String(<<106, 111, 121>>)
Sadness == String(<<115, 97, 100, 110, 101, 115, 115>>)
Neutral == String(<<110, 101, 117, 116, 114, 97, 108>>)

\* one entry of the classifier's answer; a property the object does not have
\* reads as undefined
Emotion(label, score) == [type |-> "object", label |-> label, score |-> score]

Falsy(v) == v.type \in {"null", "undefined"}
Prop(v, name) == IF v.type = "object" THEN v[name] ELSE Undefined

NeutralSentiment ==
    [label |-> Neutral, score |-> Hundredths(100), allResults |-> <<>>]

\* what the POST to the classifier settles with: a rejection (timeout, network
\* or HTTP error), or a response whose body is a list of emotions, an empty
\* list, empty, one emotion, an object that is no emotion, or a list of lists
SentimentResponses ==
    {[kind |-> "reject", data |-> JsNull],
     [kind |-> "resolve",
      data |-> JsArray(<<Emotion(Joy, Hundredths(90)), Emotion(Sadness, Hundredths(5))>>)],
     [kind |-> "resolve", data |-> JsArray(<<>>)],
     [kind |-> "resolve", data |-> JsNull],
     [kind |-> "resolve", data |-> Emotion(Sadness, Hundredths(80))],
     [kind |-> "resolve", data |-> Emotion(Undefined, Undefined)],
     [kind |-> "resolve", data |-> JsArray(<<JsArray(<<Emotion(Joy, Hundredths(90))>>)>>)]}

\* analyzeSentiment, given what the POST settled with (lines 94-119)
analyzeSentiment(response) ==
    IF response.kind = "reject" THEN RetValue(NeutralSentiment)
    ELSE LET results == IF response.data.type = "array" THEN response.data.items
                        ELSE <<response.data>>
             first == IF Len(results) = 0 THEN Undefined ELSE results[1]
             primarySentiment == IF Falsy(first)
                                 THEN Emotion(Neutral, Hundredths(100))
                                 ELSE first
         IN RetValue([label |-> Prop(primarySentiment, "label"),
                      score |-> Prop(primarySentiment, "score"),
                      allResults |-> results])

\* a call of analyzeSentiment: it touches no store
AnalyzeSentiment(text, response) ==
    /\ Begin
    /\ last' = Done("analyzeSentiment", "sentiment", response.kind, text,
                    analyzeSentiment(response), response.data, now)
    /\ UNCHANGED <<redis, now, ticks, calls>>

NextSentiment ==
    \/ \E text \in Texts, response \in SentimentResponses :
            AnalyzeSentiment(text, response)
    \/ \E d \in TickSteps : Tick(d)

SpecSentiment == Init /\ [][NextSentiment]_vars

---------------------------------------------------------------------------
(* Properties of the sentiment analysis *)

\* C19 as stated: analyzeSentiment never throws, returns exactly the neutral
\* default when the classifier call fails, and in every case returns an object
\* whose label and score are defined
C19_SentimentAlwaysLabelled ==
    last.op = "analyzeSentiment"
        => /\ last.res.kind = "value"
           /\ last.user = "reject" => last.res.value = NeutralSentiment
           /\ last.res.value.label # Undefined
           /\ last.res.value.score # Undefined

\* the part of C19 that holds: no error leaves analyzeSentiment, and a failed
\* call yields the neutral default
C19_SentimentNeverThrows ==
    last.op = "analyzeSentiment"
        => /\ last.res.kind = "value"
           /\ last.user = "reject" => last.res.value = NeutralSentiment

---------------------------------------------------------------------------
(* The resume analysis (processResume.js) *)

\* the tokens of natural's WordTokenizer: the runs of word characters
RECURSIVE WordsFrom(_, _, _)
WordsFrom(s, i, cur) ==
    IF i > Len(s) THEN (IF cur = <<>> THEN <<>> ELSE <<cur>>)
    ELSE IF IsWord(s[i]) THEN WordsFrom(s, i + 1, Append(cur, s[i]))
    ELSE (IF cur = <<>> THEN <<>> ELSE <<cur>>) \o WordsFrom(s, i + 1, <<>>)

\* words of the stop list that are longer than three letters: "with", "from"
stopwords == <<<<119, 105, 116, 104>>, <<102, 114, 111, 109>>>>

IsDigit(ch) == ch >= 48 /\ ch <= 57
Occurs(list, x) == Cardinality({i \in 1..Len(list) : list[i] = x})

\* extractKeywords: the words longer than three characters that are no stop
\* word and hold no digit, the most frequent first and, among equally frequent
\* ones, the first seen first
extractKeywords(text) ==
    LET words == WordsFrom(toLowerCase(text.codes), 1, <<>>)
        filteredWords == KeepPlaces(words,
            {i \in 1..Len(words) :
                /\ Len(words[i]) > 3
                /\ ~\E k \in 1..Len(stopwords) : stopwords[k] = words[i]
                /\ ~\E k \in 1..Len(words[i]) : IsDigit(words[i][k])}, 1)
        entries == Dedup(filteredWords)
    IN SortDesc(entries, [i \in 1..Len(entries) |-> Occurs(filteredWords, entries[i])])

\* the metrics calculateReadability returns, in whole numbers
Readability(fleschScore, avgSentenceLength) ==
    [sentenceCount |-> 1, wordCount |-> avgSentenceLength,
     avgSentenceLength |-> avgSentenceLength, avgWordLength |-> 4,
     fleschScore |-> fleschScore, fleschGradeLevel |-> 8, difficultWords |-> 0]

\* calculateReadability and extractImportantPhrases are calls into the natural
\* package: each returns (an easy or a hard text; no phrase or one) or throws
ReadabilityOutcomes ==
    {RetThrow("TypeError"), RetValue(Readability(70, 10)), RetValue(Readability(50, 30))}
PhraseOutcomes == {RetThrow("TypeError"), RetValue(<<>>), RetValue(<<<<71, 111>>>>)}

\* the sum of calculateScore without the final clamp
calculateScoreUnclamped(sentiment, entities, readability, keywordCount) ==
    2 * 70 + 2 * 10 + 2 * 5 + 2 * 5
        + 2 * Min(Len(entities.skills) * 2, 20)
        + 2 * Min(Len(entities.companies) * 1, 10)
        + Min(keywordCount, 2 * 10)

\* calculateScore, in half points (a keyword is worth half a point)
calculateScore(sentiment, entities, readability, keywordCount) ==
    LET base == 2 * 70
        joy == IF /\ sentiment.label = Joy
                  /\ sentiment.score.type = "number"
                  /\ sentiment.score.hundredths > 70 THEN 2 * 10 ELSE 0
        flesch == IF readability.fleschScore > 60 THEN 2 * 5 ELSE 0
        short == IF readability.avgSentenceLength < 20 THEN 2 * 5 ELSE 0
        skills == 2 * Min(Len(entities.skills) * 2, 20)
        companies == 2 * Min(Len(entities.companies) * 1, 10)
        keywords == Min(keywordCount, 2 * 10)
        score == base + joy + flesch + short + skills + companies + keywords
    IN Min(IF score > 0 THEN score ELSE 0, 2 * 100)

\* Math.round of a number of half points
MathRound(halves) == (halves + 1) \div 2

\* a bullet of the report: its text, and the count the text quotes
Bullet(text, n) == [text |-> text, n |-> n]

Bullets(list) == KeepPlaces(list, {i \in 1..Len(list) : list[i].n >= 0}, 1)

findStrengths(entities, keywords, phrases) ==
    LET strengths == Bullets(
            <<IF Len(entities.skills) > 5
              THEN Bullet("Strong technical skills", Len(entities.skills))
              ELSE Bullet("", -1),
              IF Len(entities.companies) > 0
              THEN Bullet("Professional experience at companies", Len(entities.companies))
              ELSE Bullet("", -1),
              IF Len(entities.education) > 0
              THEN Bullet("Strong educational background", Len(entities.education))
              ELSE Bullet("", -1),
              IF Len(keywords) > 10
              THEN Bullet("Rich in relevant keywords", 0) ELSE Bullet("", -1),
              IF Len(phrases) > 5
              THEN Bullet("Well-articulated professional experience", 0)
              ELSE Bullet("", -1)>>)
    IN IF Len(strengths) > 0 THEN strengths
       ELSE <<Bullet("Well-structured resume", 0)>>

findImprovements(sentiment, entities, readability) ==
    LET improvements == Bullets(
            <<IF sentiment.label = String(<<97, 110, 103, 101, 114>>)
                 \/ sentiment.label = Sadness
              THEN Bullet("Consider more positive and professional language", 0)
              ELSE Bullet("", -1),
              IF Len(entities.skills) < 3
              THEN Bullet("Add more technical skills to stand out", 0)
              ELSE Bullet("", -1),
              IF Len(entities.companies) = 0
              THEN Bullet("Include company names for better credibility", 0)
              ELSE Bullet("", -1),
              IF readability.avgSentenceLength > 25
              THEN Bullet("Shorten long sentences for better readability", 0)
              ELSE Bullet("", -1),
              IF readability.fleschScore < 60
              THEN Bullet("Simplify language to make resume more accessible", 0)
              ELSE Bullet("", -1)>>)
    IN IF Len(improvements) > 0 THEN improvements
       ELSE <<Bullet("Minor formatting suggestions", 0)>>

categories ==
    <<[category |-> "programming",
       skills |-> <<<<106, 97, 118, 97, 115, 99, 114, 105, 112, 116>>,
                    <<112, 121, 116, 104, 111, 110>>,
                    <<106, 97, 118, 97>>,
                    <<99, 43, 43>>,
                    <<116, 121, 112, 101, 115, 99, 114, 105, 112, 116>>,
                    <<103, 111>>,
                    <<114, 117, 115, 116>>>>],
      [category |-> "frontend",
       skills |-> <<<<114, 101, 97, 99, 116>>,
                    <<97, 110, 103, 117, 108, 97, 114>>,
                    <<118, 117, 101>>,
                    <<104, 116, 109, 108>>,
                    <<99, 115, 115>>,
                    <<115, 97, 115, 115>>>>],
      [category |-> "backend",
       skills |-> <<<<110, 111, 100, 101>>,
                    <<101, 120, 112, 114, 101, 115, 115>>,
                    <<100, 106, 97, 110, 103, 111>>,
                    <<102, 108, 97, 115, 107>>,
                    <<115, 112, 114, 105, 110, 103>>,
                    <<108, 97, 114, 97, 118, 101, 108>>>>],
      [category |-> "database",
       skills |-> <<<<109, 121, 115, 113, 108>>,
                    <<112, 111, 115, 116, 103, 114, 101, 115, 113, 108>>,
                    <<109, 111, 110, 103, 111, 100, 98>>,
                    <<114, 101, 100, 105, 115>>,
                    <<115, 113, 108, 105, 116, 101>>>>],
      [category |-> "devops",
       skills |-> <<<<100, 111, 99, 107, 101, 114>>,
                    <<107, 117, 98, 101, 114, 110, 101, 116, 101, 115>>,
                    <<97, 119, 115>>,
                    <<97, 122, 117, 114, 101>>,
                    <<103, 99, 112>>,
                    <<116, 101, 114, 114, 97, 102, 111, 114, 109>>>>],
      [category |-> "soft",
       skills |-> <<<<99, 111, 109, 109, 117, 110, 105, 99, 97, 116, 105, 111, 110>>,
                    <<108, 101, 97, 100, 101, 114, 115, 104, 105, 112>>,
                    <<116, 101, 97, 109, 119, 111, 114, 107>>,
                    <<112, 114, 111, 98, 108, 101, 109, 32, 115, 111, 108, 118, 105, 110, 103>>>>]>>

\* getSkillCategory: the first category one of whose skills is part of the name
getSkillCategory(skillName) ==
    LET lowerSkill == toLowerCase(skillName)
        found == {c \in 1..Len(categories) :
                    \E k \in 1..Len(categories[c].skills) :
                        includes(lowerSkill, categories[c].skills[k])}
    IN IF found = {} THEN "other"
       ELSE categories[CHOOSE c \in found : \A d \in found : c <= d].category

\* Math.floor(Math.random() * 30) + 50 at its ends
BaseLevels == {50, 79}

\* calculateSkillLevel, for the base level the random draw gave
calculateSkillLevel(skillName, baseLevel) ==
    Min(Min(baseLevel, 90) + (Len(skillName) % 20), 100)

\* assessSkills with a target that is always twenty above the level
assessSkillsUncapped(skills, baseLevels, t) ==
    [i \in 1..Len(skills) |->
        LET level == calculateSkillLevel(skills[i], baseLevels[i]) IN
        [name |-> skills[i], level |-> level, targetLevel |-> level + 20,
         category |-> getSkillCategory(skills[i]),
         lastPracticed |-> t, progress |-> 0]]

\* assessSkills, for the base levels the random draws gave, one per skill
assessSkills(skills, baseLevels, t) ==
    [i \in 1..Len(skills) |->
        LET level == calculateSkillLevel(skills[i], baseLevels[i]) IN
        [name |-> skills[i], level |-> level,
         targetLevel |-> IF level < 80 THEN level + 20 ELSE 100,
         category |-> getSkillCategory(skills[i]),
         lastPracticed |-> t, progress |-> 0]]

fallbackAnalysis ==
    [score |-> 70,
     strengths |-> <<Bullet("Basic structure is good", 0)>>,
     improvements |-> <<Bullet("Could not perform full analysis - try again later", 0)>>,
     keywords |-> <<>>,
     importantPhrases |-> <<>>,
     sentiment |-> NeutralSentiment,
     readability |-> [sentenceCount |-> 0, wordCount |-> 0, avgSentenceLength |-> 0,
                      avgWordLength |-> 0, fleschScore |-> 0, fleschGradeLevel |-> 0,
                      difficultWords |-> 0],
     entities |-> [skills |-> <<>>, companies |-> <<>>, titles |-> <<>>,
                   education |-> <<>>],
     skillAssessment |-> <<>>]

\* extractEntities as one step of the analysis: the entities it returns and the
\* store it leaves, for every way its cache and its inference call can go
NerOutcomes(store, text, t) ==
    LET key == NerKey(text)
        cached == redisGet(store, key)
        fallen(s) == [entities |-> fallbackEntityExtraction(text), store |-> s]
        posted(s) ==
            UNION {IF r.kind = "reject" \/ r.data.type = "null" THEN {fallen(s)}
                   ELSE LET entities == processNERResults(r.data) IN
                        {[entities |-> entities, store |-> s],
                         [entities |-> entities,
                          store |-> redisSetEx(s, key, JSONstringify(entities),
                                               NER_CACHE_EXPIRATION, t)]}
                   : r \in Responses}
    IN IF InvalidText(text) THEN {fallen(store)}
       ELSE {fallen(store)} \cup
            (IF cached = Nil THEN posted(store)
             ELSE IF JSONparse(cached).ok
             THEN {[entities |-> JSONparse(cached).value, store |-> store]}
             ELSE posted(redisDel(store, key)))

\* the uploaded documents: what reading a file of a supported type gives
ResumeTexts ==
    {String(<<>>), String(<<114, 101, 97, 99, 116, 32, 97, 116, 32, 71, 111>>)}

\* extractTextFromFile (lines 74-91): the text, or the error it rethrows
extractTextFromFile(fileType, readable, text) ==
    IF fileType \notin FileTypes THEN RetThrow("Unsupported file type")
    ELSE IF ~readable THEN RetThrow("ENOENT")
    ELSE RetValue(text)

\* a catch block that passes the error on
ResumeRethrow(error) == RetThrow(error)

\* the catch block of processResume (lines 68-71)
ResumeCatch(error) == RetValue(fallbackAnalysis)

ResumeDone(call, res, how) ==
    Done("processResume", how, call.user, call.fileType, res,
         redisGet(redis', Key2("dashboard", call.user)), now)

\* processResume up to the text of the document (lines 22-24)
ProcessResume(c, filePath, fileType, userId) ==
    /\ calls[c] = Idle
    /\ Begin
    /\ UNCHANGED <<redis, now, ticks>>
    /\ LET resumeText == extractTextFromFile(fileType, filePath.readable, filePath.text)
           call == [op |-> "processResume", pc |-> "analyze", user |-> userId,
                    fileType |-> fileType, text |-> filePath.text,
                    dashboardData |-> Nil, skillAssessment |-> <<>>]
       IN IF resumeText.kind = "throw"
          THEN /\ calls' = calls
               /\ last' = ResumeDone(call, ResumeCatch(resumeText.error), "extract")
          ELSE /\ calls' = [calls EXCEPT ![c] = call]
               /\ last' = NoLast

\* lines 27-58: the three analyses, then keywords, phrases, score, bullets and
\* the skill assessment. The sentiment and the entity analysis are started
\* before calculateReadability is called, so the entity analysis leaves its
\* cache entry also when a later stage throws
ProcessResumeAnalyze(c, response) ==
    /\ calls[c].op = "processResume" /\ calls[c].pc = "analyze"
    /\ Continue
    /\ LET call == calls[c]
           sentimentAnalysis == analyzeSentiment(response).value
           keywords == extractKeywords(call.text)
       IN \E ner \in NerOutcomes(redis, call.text, now),
             readability \in ReadabilityOutcomes,
             importantPhrases \in PhraseOutcomes,
             baseLevel \in BaseLevels :
            /\ redis' = ner.store
            /\ IF readability.kind = "throw" \/ importantPhrases.kind = "throw"
               THEN /\ calls' = [calls EXCEPT ![c] = Idle]
                    /\ last' = ResumeDone(call, ResumeCatch("TypeError"), "stage")
               ELSE LET score == calculateScore(sentimentAnalysis, ner.entities,
                                                readability.value, Len(keywords))
                        dashboardData ==
                            [score |-> MathRound(score),
                             strengths |-> findStrengths(ner.entities, keywords,
                                                         importantPhrases.value),
                             improvements |-> findImprovements(sentimentAnalysis,
                                                 ner.entities, readability.value),
                             keywords |-> Take(keywords, 20),
                             importantPhrases |-> Take(importantPhrases.value, 10),
                             sentiment |-> sentimentAnalysis,
                             readability |-> readability.value,
                             entities |-> ner.entities,
                             lastUpdated |-> now]
                    IN /\ calls' = [calls EXCEPT
                              ![c].pc = "setDashboard",
                              ![c].dashboardData = dashboardData,
                              ![c].skillAssessment =
                                  assessSkills(ner.entities.skills,
                                      [i \in 1..Len(ner.entities.skills) |-> baseLevel],
                                      now)]
                       /\ last' = last
    /\ UNCHANGED <<now, ticks>>

\* line 60: setDashboard writes the dashboard and the activity stamp; a failure
\* of either SET is rethrown to processResume
ProcessResumeSetDashboard(c) ==
    /\ calls[c].op = "processResume" /\ calls[c].pc = "setDashboard"
    /\ Continue
    /\ LET call == calls[c]
           written == setCached(redis, "dashboard", call.user, call.dashboardData, now)
           stamped == redisSetEx(written, ActivityKey(call.user), <<"raw", now>>,
                                 DASHBOARD_CACHE_EXPIRATION * 2, now)
       IN \E failed \in {"dashboard", "activity", "none"} :
            /\ redis' = IF failed = "dashboard" THEN redis
                        ELSE IF failed = "activity" THEN written ELSE stamped
            /\ IF failed = "none"
               THEN /\ calls' = [calls EXCEPT ![c].pc = "setSkillProgress"]
                    /\ last' = last
               ELSE /\ calls' = [calls EXCEPT ![c] = Idle]
                    /\ last' = ResumeDone(call, ResumeCatch("redis"), "setDashboard")
    /\ UNCHANGED <<now, ticks>>

\* line 61: setSkillProgress was taken out of the cache module's object (line
\* 10) and runs without its receiver: its first statement,
\* this.getSkillProgress(userId), throws a TypeError, which it rethrows; lines
\* 64-67 are not reached
ProcessResumeSetSkillProgress(c) ==
    /\ calls[c].op = "processResume" /\ calls[c].pc = "setSkillProgress"
    /\ Continue
    /\ redis' = redis
    /\ calls' = [calls EXCEPT ![c] = Idle]
    /\ last' = ResumeDone(calls[c], ResumeCatch("TypeError"), "setSkillProgress")
    /\ UNCHANGED <<now, ticks>>

\* the classifier's answers during an analysis: a failure, a list of emotions
\* or an object that is no emotion
ResumeSentiments ==
    {r \in SentimentResponses :
        r.kind = "reject" \/ r.data.type = "object"
            \/ (r.data.type = "array" /\ Len(r.data.items) = 2)}

ResumeFiles == [readable : BOOLEAN, text : ResumeTexts]

NextResume ==
    \/ \E filePath \in ResumeFiles, fileType \in MimeTypes, userId \in Users :
            AllIdle /\ ProcessResume("c1", filePath, fileType, userId)
    \/ \E response \in ResumeSentiments : ProcessResumeAnalyze("c1", response)
    \/ ProcessResumeSetDashboard("c1")
    \/ ProcessResumeSetSkillProgress("c1")

SpecResume == Init /\ [][NextResume]_vars

---------------------------------------------------------------------------
(* Properties of the resume analysis *)

\* C20: processResume never rejects: whatever the document, the stages and
\* the cache writes do, it resolves to an analysis with a numeric score and a
\* list of keywords, and to the fallback analysis (score 70) when a step failed
C20_ProcessResumeAlwaysResolves ==
    last.op = "processResume"
        => /\ last.res.kind = "value"
           /\ last.res.value.score \in 0..100
           /\ IsList(last.res.value.keywords)
           /\ last.ns \in {"extract", "stage", "setDashboard", "setSkillProgress"}
                => last.res.value = fallbackAnalysis /\ last.res.value.score = 70

\* C20's case: the dashboard of the analysis was written, the write of the
\* activity stamp failed, and the caller got the fallback analysis
C20_Witness ==
    /\ last.op = "processResume" /\ last.ns = "setDashboard"
    /\ last.pre # Nil
    /\ JSONparse(last.pre).value.score > 70
    /\ last.res = RetValue(fallbackAnalysis)

\* C21 as stated: when the local computation of a required stage (readability,
\* phrases) throws, the analysis fails: the error reaches the caller and no
\* analysis is reported as a success
C21_StageThrowFailsAnalysis ==
    (last.op = "processResume" /\ last.ns = "stage") => last.res.kind = "throw"

---------------------------------------------------------------------------
(* The score and the skill assessment as functions of their inputs *)

\* entities with the given numbers of skills and companies
EntitiesWith(nSkills, nCompanies) ==
    [skills |-> [i \in 1..nSkills |-> <<114, 101, 97, 99, 116>>],
     companies |-> [i \in 1..nCompanies |-> <<71, 111>>],
     titles |-> <<>>, education |-> <<>>, certifications |-> <<>>]

\* counts of entities and keywords: none, one, at and around each cap, many
EntityCounts == {0, 1, 10, 11, 40}
KeywordCounts == {0, 1, 19, 20, 21, 40}
Readabilities == {Readability(70, 10), Readability(60, 20), Readability(50, 30)}
Sentiments == {analyzeSentiment(r).value : r \in SentimentResponses}

\* a call of calculateScore, the first call of a run: it touches no store
CalculateScore(sentiment, entities, readability, keywordCount) ==
    /\ ncalls = 0
    /\ Begin
    /\ last' = Done("calculateScore", "score", "", 
                    [sentiment |-> sentiment, entities |-> entities,
                     readability |-> readability, keywordCount |-> keywordCount],
                    RetValue(calculateScore(sentiment, entities, readability,
                                            keywordCount)),
                    Nil, now)
    /\ UNCHANGED <<redis, now, ticks, calls>>

NextScore ==
    \E sentiment \in Sentiments, nSkills \in EntityCounts, nCompanies \in EntityCounts,
       readability \in Readabilities, keywordCount \in KeywordCounts :
        CalculateScore(sentiment, EntitiesWith(nSkills, nCompanies), readability,
                       keywordCount)

SpecScore == Init /\ [][NextScore]_vars

\* the score the specification gives for the inputs, in half points
SpecifiedScore(in) ==
    LET positive == /\ in.sentiment.label = Joy
                    /\ in.sentiment.score.type = "number"
                    /\ in.sentiment.score.hundredths > 70
        sum == 140 + (IF positive THEN 20 ELSE 0)
                   + (IF in.readability.fleschScore > 60 THEN 10 ELSE 0)
                   + (IF in.readability.avgSentenceLength < 20 THEN 10 ELSE 0)
                   + 2 * Min(2 * Len(in.entities.skills), 20)
                   + 2 * Min(Len(in.entities.companies), 10)
                   + Min(in.keywordCount, 20)
    IN IF sum < 0 THEN 0 ELSE IF sum > 200 THEN 200 ELSE sum

\* C22: calculateScore returns the clamped sum of the specification, and the
\* result lies within [0,100] for every input, for counts of zero and for
\* counts far above the caps (scores are in half points: 200 is 100)
C22_ScoreIsClampedSum ==
    last.op = "calculateScore"
        => /\ last.res.value = SpecifiedScore(last.arg)
           /\ last.res.value >= 0 /\ last.res.value <= 200

\* C22's case: a joyful, readable resume with counts far above every cap is
\* scored 100
C22_Witness ==
    /\ last.op = "calculateScore"
    /\ last.arg.sentiment.label = Joy
    /\ Len(last.arg.entities.skills) = 40 /\ Len(last.arg.entities.companies) = 40
    /\ last.arg.keywordCount = 40 /\ last.arg.readability.fleschScore = 70
    /\ last.res.value = 200

\* every base level Math.floor(Math.random() * 30) + 50 can give
AllBaseLevels == 50..79

\* skill names of 1, 5, 19, 20, 21 and 45 characters
NameOfLength(n) == [i \in 1..n |-> 97]
SkillNameLengths == {1, 5, 19, 20, 21, 45}

\* a call of assessSkills, the first call of a run, for one skill or for two
AssessSkills(skills, baseLevels) ==
    /\ ncalls = 0
    /\ Begin
    /\ last' = Done("assessSkills", "skills", "", skills,
                    RetValue(assessSkills(skills, baseLevels, now)), baseLevels, now)
    /\ UNCHANGED <<redis, now, ticks, calls>>

NextAssess ==
    \/ \E n \in SkillNameLengths, baseLevel \in AllBaseLevels :
            AssessSkills(<<NameOfLength(n)>>, <<baseLevel>>)
    \/ \E n \in SkillNameLengths, b1 \in AllBaseLevels, b2 \in BaseLevels :
            AssessSkills(<<<<114, 101, 97, 99, 116>>, NameOfLength(n)>>, <<b1, b2>>)

SpecAssess == Init /\ [][NextAssess]_vars

\* C23: every record assessSkills produces has a level within [0,100], the
\* target min(level + 20, 100) and progress 0, for every skill name and every
\* level the heuristic can yield
C23_AssessedSkillsInRange ==
    last.op = "assessSkills"
        => \A i \in 1..Len(last.res.value) :
              LET r == last.res.value[i] IN
              /\ r.level >= 0 /\ r.level <= 100
              /\ r.targetLevel = Min(r.level + 20, 100)
              /\ r.progress = 0

\* C23's case: the highest draw and a name of 19 characters give level 98,
\* whose target is capped at 100
C23_Witness ==
    /\ last.op = "assessSkills" /\ Len(last.res.value) = 1
    /\ last.res.value[1].level = 98 /\ last.res.value[1].targetLevel = 100

---------------------------------------------------------------------------
(* The ranking of articles (fetchDevBlogs) *)

ArticleGo == Article("Goroutines", "https://dev.to/goroutines", "go", 0 - 3600, 10,
                     "DEV Community")

\* what the sources give for a skill: nothing, or a year-old article tagged
\* python followed by one tagged go that was published within the hour
RankingFeeds == {<<>>, <<ArticleOld, ArticleGo>>}

GapSkill(name, level, targetLevel) ==
    [name |-> name, level |-> level, targetLevel |-> targetLevel,
     category |-> "programming", lastPracticed |-> 0, progress |-> 0]

\* the skills a caller passes: go with gap 50; seven skills of which six have a
\* positive gap; go with the target 0, below its level
RankingSkills ==
    {<<GapSkill("go", 30, 80)>>,
     <<GapSkill("rust", 80, 80), GapSkill("go", 30, 80), GapSkill("java", 60, 70),
       GapSkill("sql", 10, 100), GapSkill("css", 50, 90), GapSkill("html", 40, 60),
       GapSkill("vue", 75, 80)>>,
     <<GapSkill("go", 30, 0)>>}

NextRanking ==
    \/ \E u \in Users, skills \in RankingSkills : AllIdle /\ FetchDevBlogs("c1", u, skills)
    \/ FetchDevBlogsStoreFrom("c1", RankingFeeds)

SpecRanking == Init /\ [][NextRanking]_vars

\* the gap of a skill as the specification defines it
SpecifiedGap(skill) == skill.targetLevel - skill.level

\* the relevance the specification gives an article of a skill, in hundredths
SpecifiedRelevance(skill, article, t) ==
    Min(SpecifiedGap(skill)
          + (IF article.tag = skill.name THEN 30 ELSE 0)
          + (IF t - article.publishedAt < 7 * 86400 THEN 20 ELSE 0)
          + (IF article.readingTime >= 5 /\ article.readingTime <= 15 THEN 10 ELSE 0),
        100)

\* what the specification says of the list fetchDevBlogs has just returned
RankedAsSpecified ==
           LET out == last.res.value
               skills == last.arg IN
           /\ Len(out) <= 6
           /\ \A i \in 1..(Len(out) - 1) : out[i].relevance >= out[i + 1].relevance
           /\ \A i \in 1..Len(out) :
                \E k \in 1..Len(skills) :
                    /\ skills[k].name = out[i].skill
                    /\ SpecifiedGap(skills[k]) > 0
                    /\ Cardinality({m \in 1..Len(skills) :
                            SpecifiedGap(skills[m]) > SpecifiedGap(skills[k])}) < 5
                    /\ out[i].relevance = SpecifiedRelevance(skills[k], out[i], last.at)
           /\ \A i, j \in 1..Len(out) :
                (/\ out[i].skill = "go" /\ out[j].skill = "go"
                 /\ out[i].tag = "go" /\ out[j].tag = "python") => i < j

C24_RankedForPositiveTargets ==
    (last.op = "fetchDevBlogs" /\ \A k \in 1..Len(last.arg) : last.arg[k].targetLevel > 0)
        => RankedAsSpecified

---------------------------------------------------------------------------
(* The sources of articles (SOURCES, fetchFromSource) *)

MIN_READING_TIME == 3
MAX_READING_TIME == 30

\* the word the DEV filter looks for in a lowered title
sponsor == <<115, 112, 111, 110, 115, 111, 114>>

\* titles as character codes: "Go tips", "Sponsored: Go", "Go at scale"
TitleTips == <<71, 111, 32, 116, 105, 112, 115>>
TitleSponsored == <<83, 112, 111, 110, 115, 111, 114, 101, 100, 58, 32, 71, 111>>
TitleScale == <<71, 111, 32, 97, 116, 32, 115, 99, 97, 108, 101>>

Url(host, path) == <<host, path>>

\* an entry of the DEV answer and an entry of the Hashnode answer; a missing
\* title or url is the empty sequence, a missing slug the empty string
DevEntry(title, url, minutes) ==
    [title |-> title, url |-> url, tag_list |-> <<"go">>, published_at |-> 0 - 3600,
     reading_time_minutes |-> minutes]
HashnodeEntry(title, slug, minutes) ==
    [title |-> title, slug |-> slug, tags |-> <<[name |-> "go"]>>,
     dateAdded |-> 0 - 3600, readTime |-> minutes]

\* SOURCES[0].filter and SOURCES[0].transform (lines 19-34)
DevFilter(article) ==
    /\ article.title # <<>>
    /\ article.url # <<>>
    /\ ~includes(toLowerCase(article.title), sponsor)
    /\ article.reading_time_minutes >= MIN_READING_TIME
    /\ article.reading_time_minutes <= MAX_READING_TIME
DevTransform(article) ==
    Article(article.title, article.url, article.tag_list[1], article.published_at,
            article.reading_time_minutes, "DEV Community")

\* SOURCES[1].filter and SOURCES[1].transform (lines 52-66)
HashnodeFilter(article) ==
    /\ article.title # <<>>
    /\ article.slug # ""
    /\ article.readTime >= MIN_READING_TIME
    /\ article.readTime <= MAX_READING_TIME
HashnodeTransform(article) ==
    Article(article.title, Url("hashnode.com/post", article.slug), article.tags[1].name,
            article.dateAdded, article.readTime, "Hashnode")

\* what a source answers: a failure, or its entries: a good one, and ones
\* that lack a title or an address, are promotional, or read too fast or too long
DevAnswers ==
    {[kind |-> "reject", data |-> <<>>],
     [kind |-> "resolve",
      data |-> <<DevEntry(TitleSponsored, Url("dev.to", "sponsored"), 10),
                 DevEntry(<<>>, Url("dev.to", "untitled"), 10),
                 DevEntry(TitleTips, <<>>, 10),
                 DevEntry(TitleTips, Url("dev.to", "short"), 2),
                 DevEntry(TitleTips, Url("dev.to", "long"), 31),
                 DevEntry(TitleTips, Url("dev.to", "tips"), 3)>>]}
HashnodeAnswers ==
    {[kind |-> "reject", data |-> <<>>],
     [kind |-> "resolve",
      data |-> <<HashnodeEntry(TitleSponsored, "sponsored", 10),
                 HashnodeEntry(<<>>, "untitled", 10),
                 HashnodeEntry(TitleScale, "", 10),
                 HashnodeEntry(TitleScale, "short", 2),
                 HashnodeEntry(TitleScale, "long", 31),
                 HashnodeEntry(TitleScale, "scale", 30)>>]}

\* fetchFromSource (lines 207-243): the entries that pass the source's filter,
\* transformed; nothing when the request fails
FetchFromDev(answer) ==
    IF answer.kind = "reject" THEN <<>>
    ELSE LET kept == KeepPlaces(answer.data,
                        {i \in 1..Len(answer.data) : DevFilter(answer.data[i])}, 1)
         IN [i \in 1..Len(kept) |-> DevTransform(kept[i])]
FetchFromHashnode(answer) ==
    IF answer.kind = "reject" THEN <<>>
    ELSE LET kept == KeepPlaces(answer.data,
                        {i \in 1..Len(answer.data) : HashnodeFilter(answer.data[i])}, 1)
         IN [i \in 1..Len(kept) |-> HashnodeTransform(kept[i])]

\* deduplicateArticles: the first article of each url
deduplicateArticles(articles) ==
    KeepPlaces(articles,
               {i \in 1..Len(articles) :
                   \A j \in 1..(i - 1) : articles[j].url # articles[i].url}, 1)

\* fetchArticlesForSkill (lines 189-205)
fetchArticlesForSkill(devAnswer, hashnodeAnswer) ==
    deduplicateArticles(FetchFromDev(devAnswer) \o FetchFromHashnode(hashnodeAnswer))

SourceFeeds ==
    {fetchArticlesForSkill(d, h) : d \in DevAnswers, h \in HashnodeAnswers}

SourceSkills ==
    {<<GapSkill("go", 30, 80)>>, <<GapSkill("go", 30, 80), GapSkill("rust", 60, 80)>>}

NextSources ==
    \/ \E u \in Users, skills \in SourceSkills : AllIdle /\ FetchDevBlogs("c1", u, skills)
    \/ FetchDevBlogsStoreFrom("c1", SourceFeeds)

SpecSources == Init /\ [][NextSources]_vars

C25_ReturnedArticlesAreComplete ==
    last.op = "fetchDevBlogs"
        => \A i \in 1..Len(last.res.value) :
              LET a == last.res.value[i] IN
              /\ a.title # <<>> /\ a.url # <<>>
              /\ a.readingTime >= 3 /\ a.readingTime <= 30

---------------------------------------------------------------------------
(* Skill progress over assessed skills *)

\* the skill lists assessSkills produces for one and for two skills
AssessedLists ==
    {assessSkills(<<<<114, 101, 97, 99, 116>>>>, <<b>>, 0) : b \in BaseLevels}
      \cup {assessSkills(<<<<114, 101, 97, 99, 116>>, NameOfLength(19)>>, <<b, 79>>, 0) :
              b \in BaseLevels}

\* progress deltas: a step back, a step forward, and more than a whole
AnyDeltas == {0 - 10, 10, 150}

NextProgress ==
    \/ \E u \in Users, skills \in AssessedLists : AllIdle /\ SetSkillProgress("c1", u, skills)
    \/ SetSkillProgressWrite("c1")
    \/ \E u \in Users, d \in AnyDeltas :
          AllIdle /\ UpdateSkillProgress("c1", u, <<114, 101, 97, 99, 116>>, d)
    \/ UpdateSkillProgressSet("c1")
    \/ UpdateSkillProgressWrite("c1")

SpecProgress == Init /\ [][NextProgress]_vars

Percent(n) == n >= 0 /\ n <= 100
SkillInRange(r) == Percent(r.progress) /\ Percent(r.level) /\ Percent(r.targetLevel)

\* every record of the stored skills entry of every user is in range
StoredSkillsInRange ==
    \A u \in Users :
        Key2("skills", u) \in DOMAIN redis
            => LET p == JSONparse(redis[Key2("skills", u)].val) IN
               p.ok => \A i \in 1..Len(p.value) : SkillInRange(p.value[i])

\* C26 as stated: after any sequence of setSkillProgress and updateSkillProgress
\* calls over assessed skills, with any delta, every stored record and every
\* record updateSkillProgress returns has progress, level and targetLevel
\* within [0,100]
C26_SkillRecordsStayInRange ==
    /\ StoredSkillsInRange
    /\ (last.op = "update" /\ last.res.kind = "value")
          => \A i \in 1..Len(last.res.value) : SkillInRange(last.res.value[i])

---------------------------------------------------------------------------
(* The expiry of the entries every writer of the cache leaves *)

NextTtl ==
    \/ \E u \in Users, ns \in {"articles", "recommendations"} :
          AllIdle /\ SetSimple("c1", ns, u, "p1")
    \/ \E u \in Users : AllIdle /\ SetDashboard("c1", u, "p1")
    \/ SetDashboardActivity("c1")
    \/ \E u \in Users, skills \in {s \in SkillLists : Len(s) = 2} :
          AllIdle /\ SetSkillProgress("c1", u, skills)
    \/ SetSkillProgressWrite("c1")
    \/ \E text \in {t \in ResumeTexts : ~InvalidText(t)} :
          AllIdle /\ ExtractEntities("c1", text)
    \/ ExtractEntitiesPost("c1")
    \/ ExtractEntitiesCache("c1")
    \/ \E u \in Users : AllIdle /\ FetchDevBlogs("c1", u, <<GapSkill("go", 30, 80)>>)
    \/ FetchDevBlogsStoreFrom("c1", RankingFeeds)
    \/ \E d \in TickSteps : Tick(d)

SpecTtl == Init /\ [][NextTtl]_vars

\* the expiry the specification fixes for the namespace of a key, in seconds
SpecifiedTtl(key) ==
    CASE key[1] = "dashboard" -> 60 * 60
      [] key[1] = "skills" -> 24 * 60 * 60
      [] key[1] = "articles" -> 6 * 60 * 60
      [] key[1] = "recommendations" -> 30 * 60
      [] key[1] = "ner" -> 24 * 60 * 60

CacheNamespaces == {"dashboard", "skills", "articles", "recommendations", "ner"}

\* C27: every entry of the dashboard, skills, articles, recommendations, NER and
\* per-skill articles namespaces carries an expiry, and the expiry is the time
\* of a write plus the fixed TTL of the namespace
C27_EntriesCarryTheirNamespaceTtl ==
    \A key \in DOMAIN redis :
        key[1] \in CacheNamespaces
            => /\ redis[key].exp # NoExpiry
               /\ redis[key].exp - SpecifiedTtl(key) \in 0..now

\* C27's case: an entry of the cache layer, a NER entry and a per-skill list of
\* articles are in the store at once, one of them written after the clock had
\* advanced
C27_Witness ==
    /\ now > 0
    /\ \E key \in DOMAIN redis : key[1] \in {"dashboard", "skills", "recommendations"}
    /\ \E key \in DOMAIN redis : key[1] = "ner"
    /\ \E key \in DOMAIN redis : key[1] = "articles" /\ Len(key) = 3
    /\ \E key \in DOMAIN redis : key[1] \in CacheNamespaces /\ redis[key].exp > SpecifiedTtl(key)

---------------------------------------------------------------------------
(* Two callers of setSkillProgress for one user *)

\* the skills of the two callers: the same skill, assessed differently
RaceA == <<SkillRec("JavaScript", 50, 40, -86400)>>
RaceB == <<SkillRec("JavaScript", 70, 0, -3600)>>

NextRace ==
    \/ \E u \in Users : calls["c1"] = Idle /\ SetSkillProgress("c1", u, RaceA)
    \/ \E u \in Users : calls["c2"] = Idle /\ SetSkillProgress("c2", u, RaceB)
    \/ SetSkillProgressWrite("c1")
    \/ SetSkillProgressWrite("c2")
    \/ \E d \in TickSteps : Tick(d)

SpecRace == Init /\ [][NextRace]_vars

StoredSkills(store, u) == redisGet(store, Key2("skills", u))

\* what the store holds after the two calls run one after the other on an
\* empty store, in either order
SerialResults ==
    {JSONstringify(MergeSkills(RaceB, MergeSkills(RaceA, <<>>))),
     JSONstringify(MergeSkills(RaceA, MergeSkills(RaceB, <<>>)))}

\* caller c, which read the empty store, writes its skills over the entry the
\* other caller has written since
StaleWrite(c, mine, other) ==
    /\ calls[c].op = "setSkillProgress"
    /\ calls[c].arg = mine /\ calls[c].existing = <<>>
    /\ StoredSkills(redis, calls[c].user) = JSONstringify(MergeSkills(other, <<>>))
    /\ calls'[c] = Idle
    /\ last'.res = RetValue(TRUE) /\ last'.arg = mine

\* C28: two concurrent setSkillProgress calls for one user can lose an update:
\* when both read before either writes, the entry the second write leaves is
\* the result of neither serial order of the two calls
C28_ConcurrentSetsLoseAnUpdate ==
    [][\A u \in Users :
          (StaleWrite("c1", RaceA, RaceB) \/ StaleWrite("c2", RaceB, RaceA))
              => StoredSkills(redis', u) \notin SerialResults]_vars

\* C28's case: the first caller's skills are in the store, and the second
\* caller, which read the store while it was empty, is about to write
C28_Witness ==
    /\ calls["c1"] = Idle
    /\ StoredSkills(redis, "u1") = JSONstringify(MergeSkills(RaceA, <<>>))
    /\ calls["c2"].op = "setSkillProgress"
    /\ calls["c2"].arg = RaceB /\ calls["c2"].existing = <<>>

---------------------------------------------------------------------------
(* Two analyses of one user's documents in flight *)

NextResumeRace ==
    \/ \E c \in Callers, filePath \in {f \in ResumeFiles : f.readable} :
            ProcessResume(c, filePath, "application/pdf", "u1")
    \/ \E c \in Callers :
            \* the entity analysis falls back to its patterns, the classifier
            \* is down
            /\ ProcessResumeAnalyze(c, [kind |-> "reject", data |-> JsNull])
            /\ redis' = redis
    \/ \E c \in Callers : ProcessResumeSetDashboard(c)
    \/ \E c \in Callers : ProcessResumeSetSkillProgress(c)

SpecResumeRace == Init /\ [][NextResumeRace]_vars

\* the skills entry holds the assessment of the skills the dashboard entry names
FromTheSameRun(dashboard, skills) ==
    /\ skills.kind = "value"
    /\ [i \in 1..Len(skills.value) |-> skills.value[i].name]
           = dashboard.value.entities.skills

\* C29: once two analyses of one user's documents have both finished, the
\* dashboard entry and the skills entry of the user come from the same run
C29_DashboardAndSkillsFromOneRun ==
    (AllIdle /\ ncalls >= 2 /\ last.op = "processResume"
        /\ getCached(redis, "dashboard", "u1").kind = "value")
        => FromTheSameRun(getCached(redis, "dashboard", "u1"),
                          getCached(redis, "skills", "u1"))

---------------------------------------------------------------------------
(* The result entry of a job, once written *)

\* the status in the result entry of job j: "" while there is no entry
ResultStatus(store, j) ==
    LET result == redisGet(store, ResultKey(jobs[j].userId, JobId(j))) IN
    IF result = Nil THEN "" ELSE JSONparse(result).value.status

\* C30 as stated: a result entry written with status completed is never
\* afterwards overwritten with status failed for the same job
C30_CompletedResultNeverTurnsFailed ==
    [][\A j \in 1..Len(jobs) :
          ResultStatus(redis, j) = "completed"
              => ResultStatus(redis', j) # "failed"]_vars

---------------------------------------------------------------------------
(* The three analyses of processResume, stage by stage *)

AllStages == {"sentiment", "entities"}

\* lines 22-31: the text is read; analyzeSentiment and extractEntities are
\* started and calculateReadability, which is synchronous, is computed while the
\* array handed to Promise.all is built. When it throws, the catch block answers
StagesStart(c, text, userId) ==
    /\ calls[c] = Idle
    /\ Begin
    /\ UNCHANGED <<redis, now, ticks>>
    /\ \E readability \in ReadabilityOutcomes :
        LET call == [op |-> "processResume", pc |-> "stages", user |-> userId,
                     fileType |-> "application/pdf", text |-> text,
                     settled |-> {}, sentiment |-> NeutralSentiment,
                     sentimentFailed |-> FALSE,
                     entities |-> EmptyEntities, nerFailed |-> FALSE,
                     readability |-> IF readability.kind = "throw"
                                     THEN Readability(0, 0) ELSE readability.value,
                     dashboardData |-> Nil, skillAssessment |-> <<>>]
        IN IF readability.kind = "throw"
           THEN /\ calls' = calls
                /\ last' = ResumeDone(call, ResumeCatch("TypeError"), "stage")
           ELSE /\ calls' = [calls EXCEPT ![c] = call]
                /\ last' = NoLast

\* line 28: the promise of analyzeSentiment settles, with the classifier's answer
\* or with the neutral sentiment of its catch block
StageSentiment(c, response) ==
    /\ calls[c].op = "processResume" /\ calls[c].pc = "stages"
    /\ "sentiment" \notin calls[c].settled
    /\ Continue
    /\ calls' = [calls EXCEPT
           ![c].settled = @ \cup {"sentiment"},
           ![c].sentiment = analyzeSentiment(response).value,
           ![c].sentimentFailed = (response.kind = "reject")]
    /\ UNCHANGED <<redis, now, ticks, last>>

\* line 29: the promise of extractEntities settles; when its inference call
\* failed, with the entities of fallbackEntityExtraction
StageEntities(c, failed) ==
    /\ calls[c].op = "processResume" /\ calls[c].pc = "stages"
    /\ "entities" \notin calls[c].settled
    /\ Continue
    /\ \E ner \in IF failed
                  THEN {[entities |-> fallbackEntityExtraction(calls[c].text),
                         store |-> redis]}
                  ELSE NerOutcomes(redis, calls[c].text, now) :
        /\ redis' = ner.store
        /\ calls' = [calls EXCEPT
               ![c].settled = @ \cup {"entities"},
               ![c].entities = ner.entities,
               ![c].nerFailed = failed]
    /\ UNCHANGED <<now, ticks, last>>

\* lines 27-58 after the stages: keywords, phrases, score, bullets, the skill
\* assessment and dashboardData, once ready
StageScoreWhen(c, ready) ==
    /\ calls[c].op = "processResume" /\ calls[c].pc = "stages"
    /\ ready
    /\ Continue
    /\ UNCHANGED <<redis, now, ticks>>
    /\ LET call == calls[c]
           keywords == extractKeywords(call.text)
       IN \E importantPhrases \in PhraseOutcomes, baseLevel \in BaseLevels :
            IF importantPhrases.kind = "throw"
            THEN /\ calls' = [calls EXCEPT ![c] = Idle]
                 /\ last' = ResumeDone(call, ResumeCatch("TypeError"), "stage")
            ELSE /\ calls' = [calls EXCEPT
                        ![c].pc = "setDashboard",
                        ![c].dashboardData =
                            [score |-> MathRound(calculateScore(call.sentiment,
                                           call.entities, call.readability,
                                           Len(keywords))),
                             strengths |-> findStrengths(call.entities, keywords,
                                                         importantPhrases.value),
                             improvements |-> findImprovements(call.sentiment,
                                                 call.entities, call.readability),
                             keywords |-> Take(keywords, 20),
                             importantPhrases |-> Take(importantPhrases.value, 10),
                             sentiment |-> call.sentiment,
                             readability |-> call.readability,
                             entities |-> call.entities,
                             lastUpdated |-> now],
                        ![c].skillAssessment =
                            assessSkills(call.entities.skills,
                                [i \in 1..Len(call.entities.skills) |-> baseLevel],
                                now)]
                 /\ last' = last

\* a score computed without waiting for the stages
StageScoreEarly(c) == StageScoreWhen(c, TRUE)

\* line 27: await Promise.all([...]) resumes when every promise has settled
StageScore(c) == StageScoreWhen(c, calls[c].settled = AllStages)

NextStages ==
    \/ \E text \in {t \in ResumeTexts : ~InvalidText(t)}, userId \in Users :
            AllIdle /\ StagesStart("c1", text, userId)
    \/ \E response \in ResumeSentiments : StageSentiment("c1", response)
    \/ \E failed \in BOOLEAN : StageEntities("c1", failed)
    \/ StageScore("c1")
    \/ ProcessResumeSetDashboard("c1")
    \/ ProcessResumeSetSkillProgress("c1")

SpecStages == Init /\ [][NextStages]_vars

Scored(c) ==
    /\ calls[c].op = "processResume"
    /\ calls[c].pc \in {"setDashboard", "setSkillProgress"}

\* C31: the score of a run is computed only after the sentiment, the entity and
\* the readability stage have all completed, from the values the three stages
\* gave; when the sentiment call or the entity call failed, its fallback value
\* (the neutral sentiment, the pattern entities) is used next to the results of
\* the other stages
C31_ScoreAfterAllStages ==
    \A c \in Callers :
        Scored(c) =>
            LET call == calls[c]
                data == call.dashboardData IN
            /\ call.settled = AllStages
            /\ data.sentiment = call.sentiment
            /\ data.entities = call.entities
            /\ data.readability = call.readability
            /\ data.score = MathRound(calculateScore(call.sentiment, call.entities,
                                call.readability, Len(extractKeywords(call.text))))
            /\ call.sentimentFailed => data.sentiment = NeutralSentiment
            /\ call.nerFailed => data.entities = fallbackEntityExtraction(call.text)

\* C31's case: the sentiment call failed, the entity analysis answered from the
\* inference service, and the score was computed from both
C31_Witness ==
    /\ Scored("c1")
    /\ calls["c1"].sentimentFailed /\ ~calls["c1"].nerFailed
    /\ calls["c1"].dashboardData.sentiment = NeutralSentiment
    /\ calls["c1"].dashboardData.entities # fallbackEntityExtraction(calls["c1"].text)
    /\ calls["c1"].dashboardData.entities # EmptyEntities

---------------------------------------------------------------------------
(* The entity cache and the texts it answers for *)

\* an inference service whose answer depends on the text: it tags the whole
\* text as one technology
InferenceOf(text) ==
    [kind |-> "resolve",
     data |-> [type |-> "array", tokens |-> <<[word |-> text, entity |-> "B-TECH"]>>]]

\* "Aa" and "BB" have the same hash; "react at Go" has another
HitTexts ==
    {String(<<65, 97>>), String(<<66, 66>>),
     String(<<114, 101, 97, 99, 116, 32, 97, 116, 32, 71, 111>>)}

NextNerHit ==
    \/ \E text \in HitTexts : AllIdle /\ ExtractEntities("c1", text)
    \/ ExtractEntitiesPostFrom("c1",
           {InferenceOf(calls["c1"].text),
            [kind |-> "reject", data |-> [type |-> "null", tokens |-> <<>>]]})
    \/ ExtractEntitiesCache("c1")
    \/ \E d \in TickSteps : Tick(d)

SpecNerHit == Init /\ [][NextNerHit]_vars

\* the call answered from the cache with what the inference service gives for
\* its own text
HitOwnEntities ==
    (last.op = "extractEntities" /\ last.user = "hit")
        => last.res.value = processNERResults(InferenceOf(last.arg).data)

\* C32 as stated: on a cache hit extractEntities returns the entities computed
\* before for the same text, and calls the inference service only when no
\* usable entry is stored under the hash of the text
C32_HitReturnsEntitiesOfTheText ==
    /\ HitOwnEntities
    /\ \A c \in Callers :
          (calls[c].op = "extractEntities" /\ calls[c].pc = "post")
              => LET cached == redisGet(redis, NerKey(calls[c].text)) IN
                 cached = Nil \/ ~JSONparse(cached).ok

\* the same for texts whose hash no other text of the model shares
C32_HitOfUnsharedHash ==
    (last.op = "extractEntities"
        /\ \A o \in HitTexts : hashText(o) = hashText(last.arg) => o = last.arg)
        => HitOwnEntities

---------------------------------------------------------------------------
(* The buckets of processNERResults as a function of the tagged tokens *)

\* the words of the tokens: "Go", "##Go", "C", "school", "manager"
TokenWords ==
    {String(<<71, 111>>), String(<<35, 35, 71, 111>>), String(<<67>>),
     String(<<115, 99, 104, 111, 111, 108>>),
     String(<<109, 97, 110, 97, 103, 101, 114>>)}
TokenTags == {"B-TECH", "I-ORG", "B-PER", "I-EDU", "B-CERT", "B-MISC"}
TaggedTokens == [word : TokenWords, entity : TokenTags]
MaxTokens == 2
TokenLists == UNION {[1..n -> TaggedTokens] : n \in 1..MaxTokens}

\* a call of processNERResults, the first call of a run: it touches no store
ProcessNERResults(entities) ==
    /\ ncalls = 0
    /\ Begin
    /\ last' = Done("processNERResults", "ner", "", entities,
                    RetValue(processNERResults([type |-> "array", tokens |-> entities])),
                    Nil, now)
    /\ UNCHANGED <<redis, now, ticks, calls>>

NextBuckets == \E entities \in TokenLists : ProcessNERResults(entities)

SpecBuckets == Init /\ [][NextBuckets]_vars

BucketNames == {"skills", "companies", "titles", "education", "certifications"}

\* the bucket the rule table of the specification gives a token, "" for none
SpecifiedBucket(token) ==
    LET s == toLowerCase(token.word.codes) IN
    CASE token.entity \in {"B-TECH", "I-TECH"} -> "skills"
      [] token.entity \in {"B-ORG", "I-ORG"} ->
            IF \E k \in 1..Len(eduKeywords) : includes(s, eduKeywords[k])
            THEN "education" ELSE "companies"
      [] token.entity \in {"B-PER", "I-PER"} ->
            IF \E k \in 1..Len(titleKeywords) : includes(s, titleKeywords[k])
            THEN "titles" ELSE ""
      [] token.entity \in {"B-EDU", "I-EDU"} -> "education"
      [] token.entity \in {"B-CERT", "I-CERT"} -> "certifications"
      [] OTHER -> ""

InBucket(result, bucket, text) == \E i \in 1..Len(result[bucket]) : result[bucket][i] = text

\* the tokens in tokens are in the buckets of the rule table and in no other,
\* and no bucket holds a text twice
BucketsAsSpecified(all, tokens, result) ==
    /\ \A i \in tokens, b \in BucketNames :
          SpecifiedBucket(all[i]) = b
              => InBucket(result, b, cleanEntityText(all[i].word))
    /\ \A b \in BucketNames : \A k \in 1..Len(result[b]) :
          /\ \E i \in 1..Len(all) :
                /\ SpecifiedBucket(all[i]) = b
                /\ cleanEntityText(all[i].word) = result[b][k]
          /\ \A m \in 1..Len(result[b]) : result[b][m] = result[b][k] => m = k

\* C33 as stated: processNERResults puts every tagged token into the bucket of
\* the rule table (TECH: skills; ORG: education with an educational keyword,
\* else companies; PER: titles with a role keyword, else none; EDU: education;
\* CERT: certifications; other tags: none), and no bucket holds a text twice
C33_TokensFollowTheRuleTable ==
    last.op = "processNERResults"
        => BucketsAsSpecified(last.arg, 1..Len(last.arg), last.res.value)

\* the same for the tokens whose cleaned word has two characters or more
C33_LongTokensFollowTheRuleTable ==
    last.op = "processNERResults"
        => BucketsAsSpecified(last.arg,
               {i \in 1..Len(last.arg) : Len(cleanEntityText(last.arg[i].word)) > 1},
               last.res.value)

---------------------------------------------------------------------------
(* fetchDevBlogs, the fetch and the cache write as separate steps *)

SourceAnswers == [dev : DevAnswers, hashnode : HashnodeAnswers]

NotFetched == [fetched |-> FALSE, allFailed |-> FALSE, articles |-> <<>>]

\* lines 104-111 for one skill: fetchArticlesForSkill and the first three of
\* its articles
FreshFor(answer) ==
    [fetched |-> TRUE,
     allFailed |-> answer.dev.kind = "reject" /\ answer.hashnode.kind = "reject",
     articles |-> Take(fetchArticlesForSkill(answer.dev, answer.hashnode),
                       MAX_ARTICLES_PER_SKILL)]

\* lines 98-112: the sources are asked for the skills in toFetch
FetchDevBlogsFetchFor(c, toFetch) ==
    /\ calls[c].op = "fetchDevBlogs"
    /\ Continue
    /\ LET call == calls[c]
           n == Len(call.prioritized) IN
       \E answers \in [toFetch -> SourceAnswers] :
          calls' = [calls EXCEPT ![c] =
              [op |-> "fetchDevBlogs cache", user |-> call.user, arg |-> call.arg,
               prioritized |-> call.prioritized, cached |-> call.cached,
               fresh |-> [i \in 1..n |-> IF i \in toFetch THEN FreshFor(answers[i])
                                         ELSE NotFetched]]]
    /\ UNCHANGED <<redis, now, ticks, last>>

\* a fetch for every prioritized skill, cached or not
FetchDevBlogsFetchAll(c) ==
    FetchDevBlogsFetchFor(c, 1..Len(calls[c].prioritized))

\* lines 98-101: skillsToFetch are the skills whose lookup gave nothing
FetchDevBlogsFetch(c) ==
    FetchDevBlogsFetchFor(c, {i \in 1..Len(calls[c].prioritized) :
                                 ~calls[c].cached[i].hit})

\* lines 114-160: the fresh lists are cached for six hours and the ranking is
\* returned; a failed SET makes the call return []
FetchDevBlogsCache(c) ==
    /\ calls[c].op = "fetchDevBlogs cache"
    /\ Continue
    /\ LET call == calls[c]
           n == Len(call.prioritized)
           fetchedFor == {i \in 1..n : call.fresh[i].fetched} IN
       \E failed \in SUBSET fetchedFor :
          LET written == fetchedFor \ failed
              keyOf(i) == SkillArticlesKey(call.user, call.prioritized[i].name) IN
          /\ redis' = [k \in DOMAIN redis \cup {keyOf(i) : i \in written} |->
                         IF \E i \in written : k = keyOf(i)
                         THEN LET i == CHOOSE i \in written : k = keyOf(i)
                              IN [val |-> JSONstringify(call.fresh[i].articles),
                                  exp |-> now + CACHE_EXPIRATION]
                         ELSE redis[k]]
          /\ last' = Done("fetchDevBlogs", "articles", call.user, call.arg,
                          RetValue(IF failed = {}
                                   THEN Combine(call.prioritized, call.cached,
                                            [i \in 1..n |-> call.fresh[i].articles], now)
                                   ELSE <<>>),
                          [prioritized |-> call.prioritized, cached |-> call.cached,
                           fresh |-> call.fresh, failed |-> failed], now)
    /\ calls' = [calls EXCEPT ![c] = Idle]
    /\ UNCHANGED <<now, ticks>>

NextFetchSkill ==
    \/ \E u \in Users, skills \in SourceSkills : AllIdle /\ FetchDevBlogs("c1", u, skills)
    \/ FetchDevBlogsFetch("c1")
    \/ FetchDevBlogsCache("c1")
    \/ \E d \in TickSteps : Tick(d)

SpecFetchSkill == Init /\ [][NextFetchSkill]_vars

\* the last call of fetchDevBlogs got as far as its cache writes, just now
Fetched ==
    /\ last.op = "fetchDevBlogs" /\ last.at = now
    /\ DOMAIN last.pre = {"prioritized", "cached", "fresh", "failed"}

---------------------------------------------------------------------------
(* What the entity cache holds *)

\* the entities an inference response gives for a text of the same hash
InferenceDerived(entities, text) ==
    \E t \in HitTexts :
        /\ hashText(t) = hashText(text)
        /\ entities = processNERResults(InferenceOf(t).data)

\* C36: every entry of the entity cache holds entities made from an inference
\* response, never those of the pattern fallback; a call answered from the
\* cache or by the inference service returns such entities
C36_CacheHoldsInferenceResultsOnly ==
    /\ \A t \in HitTexts :
          NerKey(t) \in DOMAIN redis
              => /\ JSONparse(redis[NerKey(t)].val).ok
                 /\ InferenceDerived(JSONparse(redis[NerKey(t)].val).value, t)
                 /\ JSONparse(redis[NerKey(t)].val).value # fallbackEntityExtraction(t)
    /\ (last.op = "extractEntities" /\ last.user \in {"hit", "array"})
          => InferenceDerived(last.res.value, last.arg)

\* C36's case: the inference call failed for "react at Go", the call returned
\* what the patterns found, and the cache holds nothing for the text
C36_Witness ==
    /\ last.op = "extractEntities" /\ last.user = "rejected"
    /\ last.res.value = fallbackEntityExtraction(last.arg)
    /\ last.res.value.skills # <<>>
    /\ NerKey(last.arg) \notin DOMAIN redis

---------------------------------------------------------------------------
(* What a run that answers with the fallback analysis leaves in the cache *)

\* C37 as stated: a processResume run that returns the fallback analysis leaves
\* the dashboard entry and the skills entry of the user as they were; here for
\* the first run, which starts on an empty cache
C37_FallbackRunLeavesCacheUnchanged ==
    (ncalls = 1 /\ AllIdle /\ last.op = "processResume"
        /\ last.res = RetValue(fallbackAnalysis))
        => /\ Key2("dashboard", last.user) \notin DOMAIN redis
           /\ Key2("skills", last.user) \notin DOMAIN redis

---------------------------------------------------------------------------
(* The success entry and the two persistence steps *)

\* C38: whenever the result entry of a job has the status completed, the
\* analysis record of the job has been saved and the fields of the user updated
C38_SuccessEntryAfterPersistence ==
    \A j \in 1..Len(jobs) :
        ResultStatus(redis, j) = "completed" => (j \in db.saved /\ j \in db.updated)

\* C38's case: one job has its success entry, with its record saved and its
\* user updated, and another job, whose update of the user failed, has none
C38_Witness ==
    \E j, k \in 1..Len(jobs) :
        /\ ResultStatus(redis, j) = "completed"
        /\ j \in db.saved /\ j \in db.updated
        /\ k \in db.saved /\ k \notin db.updated
        /\ ResultStatus(redis, k) = "failed"

---------------------------------------------------------------------------
(* getSkillCategory as a function of the name of the skill *)

\* the keywords of the category tables with the category each is listed under
TableKeywords ==
    UNION {{[keyword |-> categories[c].skills[k], category |-> categories[c].category] :
               k \in 1..Len(categories[c].skills)} : c \in 1..Len(categories)}

toUpperCase(s) == [i \in 1..Len(s) |-> IF s[i] \in 97..122 THEN s[i] - 32 ELSE s[i]]
Capitalised(s) == <<toUpperCase(s)[1]>> \o Tail(s)

\* the names skills come with: every keyword of the tables in lower case, in
\* upper case and capitalised, and names that hold no keyword ("Excel", "Figma",
\* "R", "Jira", "SQL")
CategoryNames ==
    UNION {{e.keyword, toUpperCase(e.keyword), Capitalised(e.keyword)} :
              e \in TableKeywords}
        \cup {<<69, 120, 99, 101, 108>>, <<70, 105, 103, 109, 97>>, <<82>>,
              <<74, 105, 114, 97>>, <<83, 81, 76>>}

\* a call of getSkillCategory, the first call of a run: it touches no store
GetSkillCategory(skillName) ==
    /\ ncalls = 0
    /\ Begin
    /\ last' = Done("getSkillCategory", "skills", "", skillName,
                    RetValue(getSkillCategory(skillName)), Nil, now)
    /\ UNCHANGED <<redis, now, ticks, calls>>

NextCategory == \E skillName \in CategoryNames : GetSkillCategory(skillName)

SpecCategory == Init /\ [][NextCategory]_vars

\* C40 as stated: a skill whose lower-cased name is a keyword of a category
\* table gets the category of that table, and a skill whose name holds no
\* keyword of any table gets other
C40_KeywordGetsItsOwnCategory ==
    last.op = "getSkillCategory"
        => /\ \A e \in TableKeywords :
                 toLowerCase(last.arg) = e.keyword => last.res.value = e.category
           /\ (\A e \in TableKeywords : ~includes(toLowerCase(last.arg), e.keyword))
                 => last.res.value = "other"

\* the same for the keywords that hold no keyword of an earlier table
C40_KeywordWithoutEarlierKeyword ==
    last.op = "getSkillCategory"
        => /\ \A e \in TableKeywords :
                 (/\ toLowerCase(last.arg) = e.keyword
                  /\ \A f \in TableKeywords :
                        includes(e.keyword, f.keyword) => f.category = e.category)
                     => last.res.value = e.category
           /\ (\A e \in TableKeywords : ~includes(toLowerCase(last.arg), e.keyword))
                 => last.res.value = "other"
====
